---- MODULE Spec2Model ----
(***************************************************************************)
(* Minecraft Resource Pack Web Manager: the in-memory package model        *)
(* (lib/resourcepack) and the tool handlers that drive it.                 *)
(*                                                                         *)
(* Strings of the program are sequences of tokens, so that concatenation,  *)
(* prefix/suffix tests and String.includes are computed, not assumed.      *)
(* A store (Vfs = Map<string, Uint8Array>) is a function from paths to     *)
(* payloads.                                                               *)
(***************************************************************************)
EXTENDS Integers, Sequences, FiniteSets, TLC

VARIABLES
    pack,      \* App state: files of the current ResourcePack (App.tsx:22)
    last,      \* the last tool action: its input, the input object afterwards, its outcome
    last2,     \* the tool action before the last one
    steps,     \* number of tool actions performed
    mixer,     \* MixerTool state: packs in priority order (MixerTool.tsx:7)
    mixed,     \* the last call of mixPacks: the list handed in and the pack returned
    used,      \* codepoint allocation: the accumulated Set<number> of used codepoints
    alloc,     \* codepoint allocation: allocator in use, seed, calls, last outcome
    pending    \* tool handlers awaiting their file read, each with the pack it was started on

vars == <<pack, last, last2, steps, mixer, mixed, used, alloc, pending>>
packVars == <<pack, last, last2, steps, pending>>
mixVars == <<mixer, mixed>>
allocVars == <<used, alloc>>

----------------------------------------------------------------------------
(* Bounds of the model *)

MaxSteps == 3        \* tool actions per behaviour
MaxMix == 3          \* packs held by the mixer
MaxAttempts == 6402  \* allocator calls per behaviour
MaxSingles == 1      \* single allocator calls per behaviour that starts from the empty set
MaxSeeded == 3       \* allocator calls per behaviour that starts from another set

----------------------------------------------------------------------------
(* Generic helpers *)

NoNum == -1   \* "not a number / absent" for numeric JSON fields

\* JS numbers.  A tag (customModelData, threshold) is a JS number: the model carries an
\* integer as itself and encodes the other values it needs above NonIntegers:
\* k + 1/2 as Half(k), and the non-finite values NaN and Infinity.
NonIntegers == 5000
Half(k) == NonIntegers + k
NaN == 2 * NonIntegers
Infinity == 2 * NonIntegers + 1
IsHalf(x) == x >= NonIntegers /\ x < NaN
\* Number.isFinite(x)
IsFinite(x) == x \notin {NaN, Infinity}
\* Twice the value of a finite number: the order of the numbers, for a - b in
\* comparators and for x <= 0
Twice(x) == IF IsHalf(x) THEN 2 * (x - NonIntegers) + 1 ELSE 2 * x

Last(s) == s[Len(s)]

\* s.startsWith(p), s.endsWith(p), s.includes(p) on token strings
StartsWith(s, p) == Len(p) <= Len(s) /\ SubSeq(s, 1, Len(p)) = p
EndsWith(s, p) == Len(p) <= Len(s) /\ SubSeq(s, Len(s) - Len(p) + 1, Len(s)) = p
Includes(s, p) == \E i \in 1..(Len(s) - Len(p) + 1) : SubSeq(s, i, i + Len(p) - 1) = p

\* Array.prototype.findIndex, 1-based; 0 when nothing matches
FindIndex(s, Match(_)) ==
    LET hits == {i \in 1..Len(s) : Match(s[i])}
    IN  IF hits = {} THEN 0 ELSE CHOOSE i \in hits : \A j \in hits : i <= j

\* Array.prototype.sort with comparator (a, b) => Key(a) - Key(b): a stable sort
SortBy(s, Key(_)) ==
    LET n == Len(s)
        before(j, i) == (Key(s[j]) < Key(s[i])) \/ (Key(s[j]) = Key(s[i]) /\ j < i)
        rank(i) == 1 + Cardinality({j \in 1..n : before(j, i)})
    IN  [k \in 1..n |-> s[CHOOSE i \in 1..n : rank(i) = k]]

Range(s) == {s[i] : i \in DOMAIN s}

----------------------------------------------------------------------------
(* Codepoint allocation: tools.ts findFreePrivateUseCodepoint and          *)
(* types.ts getNextAvailableCodepoint                                      *)

PUA_START == 57344                  \* 0xe000
PUA_END == 63743                    \* 0xf8ff
PUA_SUPPLEMENTARY_START == 983040   \* 0xf0000
PUA_SUPPLEMENTARY_END == 1048573    \* 0xffffd
ScanStart == 57856                  \* 0xe200

\* for (cp = lo; cp <= hi; cp++) if (!used.has(cp)) return cp  -- NoNum when the
\* loop ends without returning
FirstFree(lo, hi, u) ==
    LET free == {cp \in lo..hi : cp \notin u}
    IN  IF free = {} THEN NoNum ELSE CHOOSE cp \in free : \A other \in free : cp <= other

findFreePrivateUseCodepoint_noskip(u) ==
    LET a == FirstFree(ScanStart, PUA_END, {})
    IN  [ok |-> TRUE, cp |-> a]

findFreePrivateUseCodepoint(u) ==
    LET a == FirstFree(ScanStart, PUA_END, u)
        b == FirstFree(PUA_START, ScanStart - 1, u)
    IN  IF a # NoNum THEN [ok |-> TRUE, cp |-> a]
        ELSE IF b # NoNum THEN [ok |-> TRUE, cp |-> b]
        ELSE [ok |-> FALSE, cp |-> NoNum]   \* throw new Error('No free private-use ...')

getNextAvailableCodepoint_noskip(usedCodepoints) ==
    [ok |-> TRUE, cp |-> PUA_START]

getNextAvailableCodepoint(usedCodepoints) ==
    LET a == FirstFree(PUA_START, PUA_END, usedCodepoints)
        b == FirstFree(PUA_SUPPLEMENTARY_START, PUA_SUPPLEMENTARY_END, usedCodepoints)
    IN  IF a # NoNum THEN [ok |-> TRUE, cp |-> a]
        ELSE IF b # NoNum THEN [ok |-> TRUE, cp |-> b]
        ELSE [ok |-> FALSE, cp |-> NoNum]   \* throw new Error('No available Unicode ...')

\* Sets of used codepoints an allocation run starts from
SeedSets ==
    [ empty   |-> {},
      upper   |-> ScanStart..PUA_END,
      full    |-> PUA_START..PUA_END,
      holes   |-> (PUA_START..PUA_END) \ {PUA_START + 1, 60000},
      foreign |-> {65, 57856, 57858, PUA_SUPPLEMENTARY_START} ]
SeedNames == DOMAIN SeedSets
Allocators == {"findFreePrivateUseCodepoint", "getNextAvailableCodepoint"}

BatchSizes == {1, 100}   \* the number of calls made in a row by one caller

InitAlloc ==
    \E seed \in SeedNames, fn \in Allocators :
        /\ used = SeedSets[seed]
        /\ alloc = [fn |-> fn, seed |-> seed, calls |-> 0, attempts |-> 0, singles |-> 0,
                    outcome |-> "none", ret |-> NoNum, retWasUsed |-> FALSE, rets |-> <<>>]

Call(fn, u) ==
    IF fn = "findFreePrivateUseCodepoint" THEN findFreePrivateUseCodepoint(u)
    ELSE getNextAvailableCodepoint(u)

\* One call of the allocator on the accumulated set st.used with result r; the
\* caller adds the returned value to the set (tools.ts:103-118,
\* GlyphTool.tsx:178-179)
AfterCall(st, r) ==
    [used |-> IF r.ok THEN {cp \in st.used \cup {r.cp} : TRUE} ELSE st.used,
     a |-> [st.a EXCEPT !.attempts = @ + 1,
                        !.calls = IF r.ok THEN @ + 1 ELSE @,
                        !.outcome = IF r.ok THEN "ok" ELSE "exhausted",
                        !.ret = r.cp,
                        !.retWasUsed = @ \/ (r.ok /\ r.cp \in st.used),
                        !.rets = IF r.ok THEN Append(@, r.cp) ELSE @]]

\* for (const file of files) { cp = allocate(used); used.add(cp); ... }: n calls in
\* a row, ended by the first error.  Long loops are evaluated in rounds of Round
\* calls.
Round == 10
RECURSIVE CallLoop(_, _)
CallLoop(st, n) ==
    IF n = 0 \/ st.a.outcome = "exhausted" THEN st
    ELSE IF n > Round
    THEN CHOOSE out \in {CallLoop(next, n - Round) : next \in {CallLoop(st, Round)}} : TRUE
    ELSE CHOOSE out \in {CallLoop(next, n - 1) :
                            next \in {AfterCall(st, r) : r \in {Call(st.a.fn, st.used)}}} : TRUE

Allocate(n) ==
    /\ alloc.outcome # "exhausted"
    /\ alloc.attempts + n <= MaxAttempts
    /\ n = 1 => alloc.singles < (IF alloc.seed = "empty" THEN MaxSingles ELSE MaxSeeded)
    /\ n > 1 => alloc.seed = "empty"
    /\ \E st \in {CallLoop([used |-> used,
                           a |-> [alloc EXCEPT !.retWasUsed = FALSE, !.rets = <<>>,
                                               !.singles = IF n = 1 THEN @ + 1 ELSE @]], n)} :
          /\ used' = st.used
          /\ alloc' = st.a
    /\ UNCHANGED <<packVars, mixVars>>

\* tools.ts addUnicodeGlyph, called for one glyph or for a list of glyphs:
\* findFreePrivateUseCodepoint(used)
AllocateTools ==
    /\ alloc.fn = "findFreePrivateUseCodepoint"
    /\ \E n \in BatchSizes : Allocate(n)

\* GlyphTool.handleUnicodeImageUpload, for the files of one upload:
\* getNextAvailableCodepoint(usedCodepoints)
AllocateTypes ==
    /\ alloc.fn = "getNextAvailableCodepoint"
    /\ \E n \in BatchSizes : Allocate(n)


----------------------------------------------------------------------------
(* Strings: paths and resource identifiers as token sequences *)

DigitTok == <<"0", "1", "2", "3", "4", "5", "6", "7", "8", "9">>

\* `${n}` for a non-negative integer n
RECURSIVE Digits(_)
Digits(n) == IF n < 10 THEN <<DigitTok[n + 1]>>
             ELSE Digits(n \div 10) \o <<DigitTok[(n % 10) + 1]>>

McmetaPath == <<"pack.mcmeta">>
JsonExt == <<".json">>
PngExt == <<".png">>
\* path.endsWith('.json'): the last token is the extension or ends with it
IsJsonFile(path) == path # <<>> /\ Last(path) \in {".json", "/sounds.json"}

\* itemName_cmd_N, the naming convention of generated models and textures
\* `${x}` for a non-negative finite number: 1 -> "1", 1.5 -> "1.5"
NumberText(x) == IF IsHalf(x) THEN Digits(x - NonIntegers) \o <<".5">> ELSE Digits(x)

CmdName(itemName, cmd) == itemName \o <<"_cmd_">> \o NumberText(cmd)

BaseModelPath(ns, itemName) == <<"assets/", ns, "/models/", "item/">> \o itemName \o JsonExt
ItemDefPath_models(ns, itemName) == <<"assets/", ns, "/models/">> \o itemName \o JsonExt
ItemDefPath(ns, itemName) == <<"assets/", ns, "/items/">> \o itemName \o JsonExt
ItemTexturePath(ns, name) == <<"assets/", ns, "/textures/", "item/">> \o name \o PngExt

\* `${ns}:item/${name}`
ItemResourceId(ns, name) == <<ns, ":", "item/">> \o name

----------------------------------------------------------------------------
(* vfs.ts: the path-addressed store *)

\* input.replaceAll('\\', '/').replace(/^\.(\/|$)/, '').replace(/^\/+/, '')
RECURSIVE StripLeadingSlashes(_)
StripLeadingSlashes(p) ==
    IF p # <<>> /\ p[1] = "/" THEN StripLeadingSlashes(Tail(p)) ELSE p

normalizePath(input) ==
    LET slashed == [i \in 1..Len(input) |-> IF input[i] = "\\" THEN "/" ELSE input[i]]
        undotted == IF slashed = <<".">> THEN <<>>
                    ELSE IF Len(slashed) >= 2 /\ slashed[1] = "." /\ slashed[2] = "/"
                         THEN SubSeq(slashed, 3, Len(slashed))
                    ELSE slashed
    IN  StripLeadingSlashes(undotted)

EmptyVfs == [p \in {} |-> <<>>]

\* new Map(files): a new map object with the same entries.  `shared` tells whether
\* the returned object is the argument itself, so that later writes reach the
\* caller's map.
cloneVfs_alias(files) == [files |-> files, shared |-> TRUE]

cloneVfs(files) == [files |-> files, shared |-> FALSE]

vfsHas(files, path) == normalizePath(path) \in DOMAIN files

vfsSet(files, path, data) ==
    LET p == normalizePath(path)
    IN  [q \in DOMAIN files \cup {p} |-> IF q = p THEN data ELSE files[q]]

vfsDelete(files, path) ==
    LET p == normalizePath(path)
    IN  [q \in DOMAIN files \ {p} |-> files[q]]

\* Payloads.  Binary assets are byte sequences; a text payload records the JSON
\* value it encodes and the layout of the text ("raw": as authored elsewhere,
\* "indent2nl": JSON.stringify(v, null, 2) + '\n', "indent2": without the newline).
Bytes(b) == [k |-> "bin", b |-> b]
TextOf(fmt, v) == [k |-> "text", fmt |-> fmt, v |-> v]
InvalidJson == [shape |-> "invalid"]
EmptyText == [shape |-> "empty"]

\* textDecoder.decode(bytes) === ''
IsEmptyText(payload) ==
    \/ payload.k = "bin" /\ payload.b = <<>>
    \/ payload.k = "text" /\ payload.v = EmptyText

\* JSON.parse(text) throws
Unparseable(payload) ==
    \/ payload.k = "bin"
    \/ payload.k = "text" /\ payload.v = InvalidJson

\* readText: null when the path is absent
readText(files, path) ==
    IF vfsHas(files, path) THEN [null |-> FALSE, payload |-> files[normalizePath(path)]]
    ELSE [null |-> TRUE]

\* if (!text) return null; return JSON.parse(text)
readJson(files, path) ==
    LET t == readText(files, path)
    IN  IF t.null \/ IsEmptyText(t.payload) THEN [st |-> "null"]
        ELSE IF Unparseable(t.payload) THEN [st |-> "throw"]
        ELSE [st |-> "ok", v |-> t.payload.v]

\* writeText(files, path, JSON.stringify(value, null, 2) + '\n')
writeJson(files, path, value) == vfsSet(files, path, TextOf("indent2nl", value))

----------------------------------------------------------------------------
(* JSON documents *)

Mcmeta(pf, desc) == [shape |-> "mcmeta", hasPack |-> TRUE, pack_format |-> pf, description |-> desc]
McmetaNoPack == [shape |-> "mcmeta", hasPack |-> FALSE, pack_format |-> NoNum, description |-> <<>>]

\* { parent, textures: { layer0 }, overrides? }
ModelDoc(parent, layer0, hasOverrides, overrides) ==
    [shape |-> "model", parent |-> parent, layer0 |-> layer0,
     hasOverrides |-> hasOverrides, overrides |-> overrides]
\* { predicate: { custom_model_data }, model }; cmd = NoNum: no numeric custom_model_data
Override(cmd, model) == [cmd |-> cmd, model |-> model]

LeafType == "minecraft:model"
DispatchType == "minecraft:range_dispatch"
CmdProperty == "minecraft:custom_model_data"
\* ItemsModel: a leaf, a range_dispatch node, or a node of another type
Leaf(model) == [type |-> LeafType, model |-> model]
Dispatch(type, property, entries, fallback) ==
    [type |-> type, property |-> property, index |-> 0, entries |-> entries, fallback |-> fallback]
Entry(threshold, model) == [threshold |-> threshold, model |-> model]
OtherNode == [type |-> "minecraft:select"]
ItemDef(model) == [shape |-> "itemdef", model |-> model]

IsDispatchType(t) == t = DispatchType \/ t = "range_dispatch"
\* rootModel.type is range_dispatch && rootModel.property === 'minecraft:custom_model_data'
IsCmdDispatch(node) == IsDispatchType(node.type) /\ node.property = CmdProperty
\* node.model when it is a string, else the empty string
NodeModelId(node) == IF "model" \in DOMAIN node THEN node.model ELSE <<>>


----------------------------------------------------------------------------
(* tools.ts: the Custom Model Data editor *)

ToolWords == {"sword", "axe", "pickaxe", "shovel", "hoe"}
UnderscoreTokens == {"diamond_", "iron_"}
HandheldParent == <<"minecraft", ":", "item/", "handheld">>
GeneratedParent == <<"minecraft", ":", "item/", "generated">>

\* itemName.endsWith('_sword') || ... || itemName.endsWith('_hoe')
pickDefaultItemParent(itemName) ==
    IF /\ Len(itemName) >= 2
       /\ Last(itemName) \in ToolWords
       /\ itemName[Len(itemName) - 1] \in UnderscoreTokens
    THEN HandheldParent ELSE GeneratedParent

\* The ids handed in are already trimmed and lower-case.  A match of
\* /^([a-z0-9_.-]+):([a-z0-9_./-]+)$/ splits at the colon; the namespace is returned
\* but no caller reads it.
parseNamespacedId(id) ==
    IF id = <<>> THEN [threw |-> TRUE]
    ELSE IF Len(id) >= 3 /\ id[2] = ":"
         THEN [threw |-> FALSE, namespace |-> id[1], itemName |-> SubSeq(id, 3, Len(id))]
    ELSE [threw |-> FALSE, namespace |-> "minecraft", itemName |-> id]

guessPackFormat_null(files) == NoNum

\* number | null (NoNum); a missing, empty or unparseable document gives null
guessPackFormat(files) ==
    LET t == readText(files, McmetaPath)
    IN  IF t.null \/ IsEmptyText(t.payload) THEN NoNum
        ELSE IF Unparseable(t.payload) THEN NoNum
        ELSE IF t.payload.v.shape = "mcmeta" /\ t.payload.v.hasPack
             THEN t.payload.v.pack_format
        ELSE NoNum

\* (a?.predicate?.custom_model_data ?? 0)
OverrideSortKey(o) == IF o.cmd = NoNum THEN 0 ELSE Twice(o.cmd)

upsertOverride_push(overrides, customModelData, modelId) ==
    SortBy(Append(overrides, Override(customModelData, modelId)), OverrideSortKey)

upsertOverride_nosort(overrides, customModelData, modelId) ==
    LET idx == FindIndex(overrides, LAMBDA o : o.cmd = customModelData)
        entry == Override(customModelData, modelId)
    IN  IF idx > 0 THEN [overrides EXCEPT ![idx] = entry] ELSE <<entry>> \o overrides

upsertOverride_clobber(overrides, customModelData, modelId) ==
    <<Override(customModelData, modelId)>>

upsertOverride(overrides, customModelData, modelId) ==
    LET idx == FindIndex(overrides, LAMBDA o : o.cmd = customModelData)
        entry == Override(customModelData, modelId)
        next == IF idx > 0 THEN [overrides EXCEPT ![idx] = entry] ELSE Append(overrides, entry)
    IN  SortBy(next, OverrideSortKey)

upsertRangeDispatchEntry_clobber(entries, threshold, model) ==
    <<Entry(threshold, model)>>

upsertRangeDispatchEntry(entries, threshold, model) ==
    LET idx == FindIndex(entries, LAMBDA e : e.threshold = threshold)
        entry == Entry(threshold, model)
        next == IF idx > 0 THEN [entries EXCEPT ![idx] = entry] ELSE Append(entries, entry)
    IN  SortBy(next, LAMBDA e : Twice(e.threshold))

\* Result: the document to edit, or a throw of JSON.parse
ensureItemModelWithOverrides(files, modelPath, itemName) ==
    LET t == readText(files, modelPath)
    IN  IF ~t.null /\ ~IsEmptyText(t.payload)
        THEN IF Unparseable(t.payload) THEN [threw |-> TRUE]
             ELSE [threw |-> FALSE,
                   doc |-> [t.payload.v EXCEPT
                              !.hasOverrides = TRUE,
                              !.overrides = IF t.payload.v.hasOverrides THEN @ ELSE <<>>]]
        ELSE [threw |-> FALSE,
              doc |-> ModelDoc(pickDefaultItemParent(itemName),
                               ItemResourceId("minecraft", itemName), TRUE, <<>>)]

applyCmdLegacyOverrides_items(files, itemName, cmd, overrideModelId) ==
    LET baseModelPath == ItemDefPath("minecraft", itemName)
        base == ensureItemModelWithOverrides(files, baseModelPath, itemName)
    IN  IF base.threw THEN [threw |-> TRUE, files |-> files]
        ELSE [threw |-> FALSE,
              files |-> writeJson(files, baseModelPath,
                          [base.doc EXCEPT !.overrides = upsertOverride(@, cmd, overrideModelId)])]

applyCmdLegacyOverrides(files, itemName, cmd, overrideModelId) ==
    LET baseModelPath == BaseModelPath("minecraft", itemName)
        base == ensureItemModelWithOverrides(files, baseModelPath, itemName)
    IN  IF base.threw THEN [threw |-> TRUE, files |-> files]
        ELSE [threw |-> FALSE,
              files |-> writeJson(files, baseModelPath,
                          [base.doc EXCEPT !.overrides = upsertOverride(@, cmd, overrideModelId)])]

applyCmdItemsModelDefinition_1_21_4(files, itemName, cmd, overrideModelId) ==
    LET itemDefPath == ItemDefPath("minecraft", itemName)
        t == readText(files, itemDefPath)
        existing == ~t.null /\ ~IsEmptyText(t.payload)
        default == Leaf(ItemResourceId("minecraft", itemName))
        doc == IF existing THEN t.payload.v ELSE ItemDef(default)
        rootModel == doc.model
        dispatch == IF IsCmdDispatch(rootModel) THEN rootModel
                    ELSE Dispatch(DispatchType, CmdProperty, <<>>, <<rootModel>>)
        entries == upsertRangeDispatchEntry(dispatch.entries, cmd, Leaf(overrideModelId))
        \* dispatch.fallback = dispatch.fallback ?? default
        fallback == IF dispatch.fallback = <<>> THEN <<default>> ELSE dispatch.fallback
    IN  IF existing /\ Unparseable(t.payload) THEN [threw |-> TRUE, files |-> files]
        ELSE [threw |-> FALSE,
              files |-> writeJson(files, itemDefPath,
                          [doc EXCEPT !.model = [dispatch EXCEPT !.entries = entries,
                                                                 !.fallback = fallback]])]

\* input: [itemId, customModelData, namespace, texturePng].  The result carries the
\* working map, whether the call threw, and whether the working map is the
\* caller's own map object.
applyCustomModelData(packFiles, input) ==
    LET c == cloneVfs(packFiles)
        files == c.files
        ns == IF input.namespace = "" THEN "mrwm" ELSE input.namespace
        parsed == parseNamespacedId(input.itemId)
        itemName == parsed.itemName
        cmd == input.customModelData
        overrideModelId == ItemResourceId(ns, CmdName(itemName, cmd))
        packFormat == guessPackFormat(files)
        step == IF packFormat # NoNum /\ packFormat >= 46
                THEN applyCmdItemsModelDefinition_1_21_4(files, itemName, cmd, overrideModelId)
                ELSE applyCmdLegacyOverrides(files, itemName, cmd, overrideModelId)
        generatedModelPath == BaseModelPath(ns, CmdName(itemName, cmd))
        withModel == writeJson(step.files, generatedModelPath,
                               ModelDoc(pickDefaultItemParent(itemName), overrideModelId,
                                        FALSE, <<>>))
        texturePath == ItemTexturePath(ns, CmdName(itemName, cmd))
    IN  IF parsed.threw THEN [threw |-> TRUE, files |-> files, shared |-> c.shared]
        \* !Number.isFinite(cmd) || cmd <= 0
        ELSE IF ~IsFinite(cmd) \/ Twice(cmd) <= 0
             THEN [threw |-> TRUE, files |-> files, shared |-> c.shared]
        ELSE IF step.threw THEN [threw |-> TRUE, files |-> files, shared |-> c.shared]
        ELSE [threw |-> FALSE, shared |-> c.shared,
              files |-> vfsSet(withModel, texturePath, input.texturePng)]


----------------------------------------------------------------------------
(* converter.ts: the pack-format converter *)

Boundary == 46   \* pack_format of 1.21.4, the first with assets/*/items/*.json

\* path.startsWith('assets/') && path.includes('/models/item/') && path.endsWith('.json')
IsItemModelPath(path) ==
    StartsWith(path, <<"assets/">>) /\ Includes(path, <<"/models/", "item/">>) /\ EndsWith(path, JsonExt)
\* /^assets\/([^/]+)\/models\/item\/(.+)\.json$/
MatchItemModelPath(path) ==
    IF /\ Len(path) >= 6
       /\ path[1] = "assets/" /\ path[3] = "/models/" /\ path[4] = "item/"
       /\ Last(path) = ".json"
    THEN [ok |-> TRUE, namespace |-> path[2], itemName |-> SubSeq(path, 5, Len(path) - 1)]
    ELSE [ok |-> FALSE]

\* path.startsWith('assets/') && path.includes('/items/') && path.endsWith('.json')
IsItemDefPath(path) ==
    StartsWith(path, <<"assets/">>) /\ Includes(path, <<"/items/">>) /\ EndsWith(path, JsonExt)
\* /^assets\/([^/]+)\/items\/(.+)\.json$/
MatchItemDefPath(path) ==
    IF /\ Len(path) >= 5
       /\ path[1] = "assets/" /\ path[3] = "/items/"
       /\ Last(path) = ".json"
    THEN [ok |-> TRUE, namespace |-> path[2], itemName |-> SubSeq(path, 4, Len(path) - 1)]
    ELSE [ok |-> FALSE]

\* overrides.filter(numeric tag).map(...).sort(by threshold)
EntriesOfOverrides_keepAll(overrides) ==
    SortBy([i \in 1..Len(overrides) |-> Entry(overrides[i].cmd, Leaf(overrides[i].model))],
           LAMBDA e : Twice(e.threshold))

EntriesOfOverrides(overrides) ==
    LET numeric == SelectSeq(overrides, LAMBDA o : o.cmd # NoNum)
    IN  SortBy([i \in 1..Len(numeric) |-> Entry(numeric[i].cmd, Leaf(numeric[i].model))],
               LAMBDA e : Twice(e.threshold))

OverridesOfEntries_type(entries) ==
    LET usable == SelectSeq(entries, LAMBDA e : e.threshold # NoNum /\ NodeModelId(e.model) # <<>>)
    IN  SortBy([i \in 1..Len(usable) |-> Override(usable[i].threshold, <<usable[i].model.type>>)],
               OverrideSortKey)

OverridesOfEntries_nofilter(entries) ==
    SortBy([i \in 1..Len(entries) |-> Override(entries[i].threshold, NodeModelId(entries[i].model))],
           OverrideSortKey)

\* entries.filter(numeric threshold && e.model?.model).map(...).sort(by tag)
OverridesOfEntries(entries) ==
    LET usable == SelectSeq(entries, LAMBDA e : e.threshold # NoNum /\ NodeModelId(e.model) # <<>>)
    IN  SortBy([i \in 1..Len(usable) |-> Override(usable[i].threshold, NodeModelId(usable[i].model))],
               OverrideSortKey)

\* One iteration of the loop of convertLegacyToModern over modelPath
LegacyToModernStep(files, modelPath) ==
    LET r == readJson(files, modelPath)
        model == r.v
        m == MatchItemModelPath(modelPath)
        itemDefPath == ItemDefPath(m.namespace, m.itemName)
        entries == EntriesOfOverrides(model.overrides)
        itemDef == ItemDef(Dispatch(DispatchType, CmdProperty, entries,
                                    <<Leaf(ItemResourceId(m.namespace, m.itemName))>>))
        withDef == writeJson(files, itemDefPath, itemDef)
        \* delete model.overrides
        stripped == [model EXCEPT !.hasOverrides = FALSE, !.overrides = <<>>]
    IN  IF r.st = "throw" THEN [threw |-> TRUE, files |-> files, changes |-> <<>>]
        ELSE IF r.st = "null" \/ model.shape # "model" \/ ~model.hasOverrides \/ model.overrides = <<>>
             THEN [threw |-> FALSE, files |-> files, changes |-> <<>>]
        ELSE IF ~m.ok THEN [threw |-> FALSE, files |-> files, changes |-> <<>>]
        ELSE IF entries = <<>> THEN [threw |-> FALSE, files |-> files, changes |-> <<>>]
        ELSE [threw |-> FALSE,
              files |-> writeJson(withDef, modelPath, stripped),
              changes |-> << [c |-> "converted", from |-> modelPath, to |-> itemDefPath],
                             [c |-> "removedOverrides", path |-> modelPath] >>]

\* One iteration of the loop of convertModernToLegacy over itemDefPath
ModernToLegacyStep(files, itemDefPath) ==
    LET r == readJson(files, itemDefPath)
        model == r.v.model
        m == MatchItemDefPath(itemDefPath)
        modelPath == BaseModelPath(m.namespace, m.itemName)
        overrides == OverridesOfEntries(model.entries)
        b == readJson(files, modelPath)
        baseModel == IF b.st = "null"
                     THEN ModelDoc(GeneratedParent, ItemResourceId(m.namespace, m.itemName),
                                   FALSE, <<>>)
                     ELSE b.v
        written == writeJson(files, modelPath,
                             [baseModel EXCEPT !.hasOverrides = TRUE, !.overrides = overrides])
    IN  IF r.st = "throw" THEN [threw |-> TRUE, files |-> files, changes |-> <<>>]
        ELSE IF r.st = "null" \/ r.v.shape # "itemdef"
             THEN [threw |-> FALSE, files |-> files, changes |-> <<>>]
        ELSE IF ~IsCmdDispatch(model) THEN [threw |-> FALSE, files |-> files, changes |-> <<>>]
        ELSE IF ~m.ok THEN [threw |-> FALSE, files |-> files, changes |-> <<>>]
        ELSE IF overrides = <<>> THEN [threw |-> FALSE, files |-> files, changes |-> <<>>]
        ELSE IF b.st = "throw" THEN [threw |-> TRUE, files |-> files, changes |-> <<>>]
        ELSE [threw |-> FALSE,
              files |-> vfsDelete(written, itemDefPath),
              changes |-> << [c |-> "converted", from |-> itemDefPath, to |-> modelPath],
                             [c |-> "removed", path |-> itemDefPath] >>]

\* for (const path of todo) Step(files, path): the loop stops at the first throw.
\* The map's iteration order is not part of the store; paths are taken in a fixed
\* order.
Pick(todo) == CHOOSE q \in todo : TRUE

RECURSIVE LegacyToModernLoop(_, _, _)
LegacyToModernNext(r, rest, changes) ==
    IF r.threw THEN [threw |-> TRUE, files |-> r.files, changes |-> changes]
    ELSE LegacyToModernLoop(r.files, rest, changes \o r.changes)
LegacyToModernLoop(files, todo, changes) ==
    IF todo = {} THEN [threw |-> FALSE, files |-> files, changes |-> changes]
    ELSE CHOOSE out \in {LegacyToModernNext(r, todo \ {Pick(todo)}, changes) :
                          r \in {LegacyToModernStep(files, Pick(todo))}} : TRUE

RECURSIVE ModernToLegacyLoop(_, _, _)
ModernToLegacyNext(r, rest, changes) ==
    IF r.threw THEN [threw |-> TRUE, files |-> r.files, changes |-> changes]
    ELSE ModernToLegacyLoop(r.files, rest, changes \o r.changes)
ModernToLegacyLoop(files, todo, changes) ==
    IF todo = {} THEN [threw |-> FALSE, files |-> files, changes |-> changes]
    ELSE CHOOSE out \in {ModernToLegacyNext(r, todo \ {Pick(todo)}, changes) :
                          r \in {ModernToLegacyStep(files, Pick(todo))}} : TRUE

convertLegacyToModern(files) ==
    LET itemModels == {path \in DOMAIN files : IsItemModelPath(path)}
        r == LegacyToModernLoop(files, itemModels, <<>>)
    IN  [threw |-> r.threw, files |-> r.files, changes |-> r.changes,
         warnings |-> IF r.changes = <<>>
                      THEN <<"No legacy item model overrides found to convert">> ELSE <<>>]

convertModernToLegacy(files) ==
    LET itemDefs == {path \in DOMAIN files : IsItemDefPath(path)}
        r == ModernToLegacyLoop(files, itemDefs, <<>>)
    IN  [threw |-> r.threw, files |-> r.files, changes |-> r.changes,
         warnings |-> IF r.changes = <<>>
                      THEN <<"No modern item definitions found to convert">> ELSE <<>>]

\* readJson(files, 'pack.mcmeta')?.pack_format ?? 0: the version looked up beside the
\* pack section instead of inside it
CurrentFormat_topLevel(r) == 0

\* readJson(files, 'pack.mcmeta')?.pack?.pack_format ?? 0
CurrentFormat(r) ==
    IF r.st = "ok" /\ r.v.shape = "mcmeta" /\ r.v.hasPack /\ r.v.pack_format # NoNum
    THEN r.v.pack_format ELSE 0

\* mcmeta.pack.pack_format = targetFormat; writeJson(files, 'pack.mcmeta', mcmeta)
UpdatePackMcmeta_stale(files, mcmeta, targetFormat) ==
    writeJson(files, McmetaPath, mcmeta)

UpdatePackMcmeta(files, mcmeta, targetFormat) ==
    writeJson(files, McmetaPath, [mcmeta EXCEPT !.pack_format = targetFormat])

\* currentFormat < 46 && targetFormat >= 46
CrossesUp_anyUpgrade(currentFormat, targetFormat) == currentFormat < targetFormat

CrossesUp(currentFormat, targetFormat) ==
    currentFormat < Boundary /\ targetFormat >= Boundary

\* currentFormat >= 46 && targetFormat < 46
CrossesDown(currentFormat, targetFormat) ==
    currentFormat >= Boundary /\ targetFormat < Boundary

\* The result carries the working map, whether the call threw, whether the working
\* map is the caller's map object, and whether the caller's pack itself is returned.
convertPackFormat(packFiles, targetFormat) ==
    LET c == cloneVfs(packFiles)
        files == c.files
        r == readJson(files, McmetaPath)
        currentFormat == CurrentFormat(r)
        w0 == IF currentFormat = 0 THEN <<"Could not determine current pack format">> ELSE <<>>
        hasPack == r.st = "ok" /\ r.v.shape = "mcmeta" /\ r.v.hasPack
        files1 == IF hasPack THEN UpdatePackMcmeta(files, r.v, targetFormat) ELSE files
        ch1 == IF hasPack THEN << [c |-> "meta", from |-> currentFormat, to |-> targetFormat] >>
               ELSE <<>>
        conv == IF CrossesUp(currentFormat, targetFormat)
                THEN convertLegacyToModern(files1)
                ELSE IF CrossesDown(currentFormat, targetFormat)
                THEN convertModernToLegacy(files1)
                ELSE [threw |-> FALSE, files |-> files1, changes |-> <<>>, warnings |-> <<>>]
    IN  IF r.st = "throw"
        THEN [threw |-> TRUE, files |-> files, shared |-> c.shared, same |-> FALSE,
              changes |-> <<>>, warnings |-> <<>>]
        ELSE IF currentFormat = targetFormat
        THEN [threw |-> FALSE, files |-> files, shared |-> c.shared, same |-> TRUE,
              changes |-> <<>>, warnings |-> w0 \o <<"Pack is already at target format">>]
        ELSE [threw |-> conv.threw, files |-> conv.files, shared |-> c.shared, same |-> FALSE,
              changes |-> ch1 \o conv.changes, warnings |-> w0 \o conv.warnings]


----------------------------------------------------------------------------
(* metadata.ts, tools.ts, sounds.ts: the other mutating entry points *)

DefaultPackFormat == 34   \* defaultPackSettings
DefaultDescription == <<"Generated with Minecraft Resource Pack Web Manager">>

\* settings: [packFormat, description]
applyPackSettings(packFiles, settings) ==
    LET c == cloneVfs(packFiles)
    IN  \* !Number.isFinite(packFormat) || packFormat <= 0, checked before the clone
        IF settings.packFormat <= 0
        THEN [threw |-> TRUE, files |-> packFiles, shared |-> TRUE]
        ELSE [threw |-> FALSE, shared |-> c.shared,
              files |-> writeJson(c.files, McmetaPath,
                                  Mcmeta(settings.packFormat, settings.description))]

createEmptyPack(settings) == applyPackSettings(EmptyVfs, settings).files

\* path.toLowerCase().endsWith('.png') ? path : `${path}.png`
ensurePng(path) == IF EndsWith(path, PngExt) THEN path ELSE path \o PngExt

\* replace(/^\//, '')
StripOneSlash(sub) == IF sub # <<>> /\ sub[1] = "/" THEN Tail(sub) ELSE sub

normalizeVanillaTextureTarget(target) ==
    IF target = <<>> THEN [threw |-> TRUE]
    ELSE IF StartsWith(target, <<"assets/">>) THEN [threw |-> FALSE, path |-> ensurePng(target)]
    ELSE IF Len(target) >= 3 /\ target[2] = ":"
         THEN [threw |-> FALSE,
               path |-> ensurePng(<<"assets/", target[1], "/textures/">>
                                  \o StripOneSlash(SubSeq(target, 3, Len(target))))]
    ELSE [threw |-> FALSE,
          path |-> ensurePng(<<"assets/", "minecraft", "/textures/">> \o StripOneSlash(target))]

\* input: [target, replacementPng]
replaceVanillaTexture(packFiles, input) ==
    LET c == cloneVfs(packFiles)
        t == normalizeVanillaTextureTarget(input.target)
    IN  IF t.threw THEN [threw |-> TRUE, files |-> c.files, shared |-> c.shared]
        ELSE [threw |-> FALSE, shared |-> c.shared,
              files |-> vfsSet(c.files, t.path, input.replacementPng)]

SetAll_keepFirst(out, files) ==
    [p \in DOMAIN out \cup DOMAIN files |-> IF p \in DOMAIN out THEN out[p] ELSE files[p]]

\* for (const [path, data] of pack.files.entries()) out.set(path, data)
SetAll(out, files) ==
    [p \in DOMAIN out \cup DOMAIN files |-> IF p \in DOMAIN files THEN files[p] ELSE out[p]]

\* for (const pack of packsInPriorityOrder) ...
RECURSIVE MixInto(_, _)
MixInto(out, packs) ==
    IF packs = <<>> THEN out ELSE MixInto(SetAll(out, Head(packs)), Tail(packs))

\* packsInPriorityOrder: the stores of the packs, in order
mixPacks(packsInPriorityOrder, outputName) ==
    [name |-> outputName, files |-> MixInto(EmptyVfs, packsInPriorityOrder)]

\* sounds.json: { [soundId]: { sounds: [...], subtitle? } }
SoundsDoc(events) == [shape |-> "sounds", events |-> events]
SoundsJsonPath(ns) == <<"assets/", ns, "/sounds.json">>
\* soundId.replace(/\./g, '/')
DotsToSlashes(id) == [i \in 1..Len(id) |-> IF id[i] = "." THEN "/" ELSE id[i]]

\* input: [soundId, namespace, soundFile, replace]
addSound(packFiles, input) ==
    LET c == cloneVfs(packFiles)
        ns == IF input.namespace = "" THEN "minecraft" ELSE input.namespace
        soundName == DotsToSlashes(input.soundId)
        fullSoundPath == <<"assets/", ns, "/sounds/">> \o soundName \o <<".ogg">>
        files1 == vfsSet(c.files, fullSoundPath, input.soundFile)
        r == readJson(files1, SoundsJsonPath(ns))
        events == IF r.st = "ok" /\ r.v.shape = "sounds" THEN r.v.events
                  ELSE [id \in {} |-> <<>>]
        soundEntry == [name |-> <<ns, ":">> \o soundName, stream |-> FALSE]
        event == IF input.soundId \notin DOMAIN events \/ input.replace
                 THEN [sounds |-> <<soundEntry>>]
                 ELSE [sounds |-> Append(events[input.soundId].sounds, soundEntry)]
        next == [id \in DOMAIN events \cup {input.soundId} |->
                    IF id = input.soundId THEN event ELSE events[id]]
    IN  IF r.st = "throw" THEN [threw |-> TRUE, files |-> files1, shared |-> c.shared]
        ELSE [threw |-> FALSE, shared |-> c.shared,
              files |-> writeJson(files1, SoundsJsonPath(ns), SoundsDoc(next))]

removeSound(packFiles, soundId, namespace) ==
    LET c == cloneVfs(packFiles)
        r == readJson(c.files, SoundsJsonPath(namespace))
        events == r.v.events
        next == [id \in DOMAIN events \ {soundId} |-> events[id]]
    IN  IF r.st = "throw" THEN [threw |-> TRUE, files |-> c.files, shared |-> c.shared, same |-> FALSE]
        ELSE IF r.st = "null"
        THEN [threw |-> FALSE, files |-> c.files, shared |-> c.shared, same |-> TRUE]
        ELSE [threw |-> FALSE, shared |-> c.shared, same |-> FALSE,
              files |-> writeJson(c.files, SoundsJsonPath(namespace), SoundsDoc(next))]

\* codepoint.toString(16).toUpperCase().padStart(4, '0')
HexTok == <<"0", "1", "2", "3", "4", "5", "6", "7", "8", "9", "A", "B", "C", "D", "E", "F">>
RECURSIVE HexDigits(_)
HexDigits(n) == IF n < 16 THEN <<HexTok[n + 1]>>
                ELSE HexDigits(n \div 16) \o <<HexTok[(n % 16) + 1]>>
RECURSIVE PadStart4(_)
PadStart4(d) == IF Len(d) >= 4 THEN d ELSE PadStart4(<<"0">> \o d)
CodepointHex(cp) == PadStart4(HexDigits(cp))

\* font json: { providers: [{ type, file, ascent, height, chars: [row, ...] }] };
\* a row is a string, here the sequence of its code points
FontDoc(providers) == [shape |-> "font", providers |-> providers]
FontPath(fontKey) == <<"assets/", "minecraft", "/font/", fontKey, ".json">>
GlyphTexturePath(cp) ==
    <<"assets/", "minecraft", "/textures/", "font/", "glyph_">> \o CodepointHex(cp) \o PngExt
BitmapProvider(file, ascent, height, chars) ==
    [type |-> "bitmap", file |-> file, ascent |-> ascent, height |-> height, chars |-> chars]

\* every code point of every row of every provider
UsedCodepoints(providers) ==
    UNION {UNION {Range(row) : row \in Range(provider.chars)} : provider \in Range(providers)}

\* input: [fontKey, png]; ascent and height take their defaults 7 and 8
addUnicodeGlyph(packFiles, input) ==
    LET c == cloneVfs(packFiles)
        fontKey == IF input.fontKey = "" THEN "default" ELSE input.fontKey
        fontPath == FontPath(fontKey)
        r == readJson(c.files, fontPath)
        providers == IF r.st = "ok" /\ r.v.shape = "font" THEN r.v.providers ELSE <<>>
        found == findFreePrivateUseCodepoint(UsedCodepoints(providers))
        codepoint == found.cp
        files1 == vfsSet(c.files, GlyphTexturePath(codepoint), input.png)
        provider == BitmapProvider(<<"minecraft", ":", "font/", "glyph_">> \o CodepointHex(codepoint),
                                   7, 8, << <<codepoint>> >>)
    IN  IF r.st = "throw" \/ ~found.ok
        THEN [threw |-> TRUE, files |-> c.files, shared |-> c.shared]
        ELSE [threw |-> FALSE, shared |-> c.shared,
              files |-> writeJson(files1, fontPath, FontDoc(Append(providers, provider)))]


----------------------------------------------------------------------------
(* ManagerTool.tsx: the Custom Models tab *)

MinecraftModelPrefix == <<"assets/", "minecraft", "/models/", "item/">>
MinecraftItemsPrefix == <<"assets/", "minecraft", "/items/">>

\* path.replace(prefix, '').replace('.json', '') for a path that starts with prefix
\* and ends with '.json'
StripPrefixAndJson(path, prefix) == SubSeq(path, Len(prefix) + 1, Len(path) - 1)

LegacyEntryPaths(files) ==
    {path \in DOMAIN files : StartsWith(path, MinecraftModelPrefix) /\ EndsWith(path, JsonExt)}
ModernEntryPaths(files) ==
    {path \in DOMAIN files : StartsWith(path, MinecraftItemsPrefix) /\ EndsWith(path, JsonExt)}

\* readJson throws while the table is built: the tab does not render
findCmdEntriesThrows(files) ==
    \E path \in LegacyEntryPaths(files) \cup ModernEntryPaths(files) :
        readJson(files, path).st = "throw"

\* The rows of the table: {item, cmd, isModern}
findCmdEntries(files) ==
    LET legacy ==
            UNION { LET r == readJson(files, path)
                    IN  IF r.st = "ok" /\ r.v.shape = "model" /\ r.v.hasOverrides
                        THEN { [item |-> StripPrefixAndJson(path, MinecraftModelPrefix),
                                cmd |-> o.cmd, isModern |-> FALSE] :
                               \* if (override?.predicate?.custom_model_data)
                               o \in {x \in Range(r.v.overrides) : x.cmd # NoNum /\ x.cmd # 0} }
                        ELSE {}
                    : path \in LegacyEntryPaths(files) }
        modern ==
            UNION { LET r == readJson(files, path)
                    IN  IF r.st = "ok" /\ r.v.shape = "itemdef" /\ IsCmdDispatch(r.v.model)
                        THEN { [item |-> StripPrefixAndJson(path, MinecraftItemsPrefix),
                                cmd |-> e.threshold, isModern |-> TRUE] :
                               e \in {x \in Range(r.v.model.entries) : x.threshold # NoNum} }
                        ELSE {}
                    : path \in ModernEntryPaths(files) }
    IN  legacy \cup modern

\* for (const [path] of files.entries()) if (path.includes(`${itemName}_cmd_${cmd}`)) delete
DeleteGenerated(files, itemName, cmd) ==
    LET doomed == {path \in DOMAIN files : Includes(path, CmdName(itemName, cmd))}
    IN  [q \in DOMAIN files \ doomed |-> files[q]]

\* The files of the pack handed to onPackChange
deleteEntry(packFiles, itemName, cmd, isModern) ==
    LET files == packFiles   \* new Map(pack.files)
        itemDefPath == ItemDefPath("minecraft", itemName)
        d == readJson(files, itemDefPath)
        \* itemDef?.model?.entries
        hasEntries == d.st = "ok" /\ d.v.shape = "itemdef" /\ "entries" \in DOMAIN d.v.model
        entries == SelectSeq(d.v.model.entries, LAMBDA e : e.threshold # cmd)
        afterModern ==
            IF ~hasEntries THEN files
            ELSE IF entries = <<>> THEN vfsDelete(files, itemDefPath)
            ELSE vfsSet(files, itemDefPath,
                        TextOf("indent2nl", [d.v EXCEPT !.model.entries = entries]))
        baseModelPath == BaseModelPath("minecraft", itemName)
        b == readJson(files, baseModelPath)
        \* baseModel?.overrides
        hasOverrides == b.st = "ok" /\ b.v.shape = "model" /\ b.v.hasOverrides
        overrides == SelectSeq(b.v.overrides, LAMBDA o : o.cmd # cmd)
        afterLegacy ==
            IF ~hasOverrides THEN files
            ELSE IF overrides = <<>> THEN vfsDelete(files, baseModelPath)
            ELSE vfsSet(files, baseModelPath,
                        TextOf("indent2nl", [b.v EXCEPT !.overrides = overrides]))
    IN  DeleteGenerated(IF isModern THEN afterModern ELSE afterLegacy, itemName, cmd)

----------------------------------------------------------------------------
(* zip.ts and persistence: packs that come from outside *)

\* the tokens whose last character is '/'
SlashEnded == {"/", "assets/", "item/", "font/", "/models/", "/textures/", "/items/",
               "/font/", "/sounds/"}

\* importZip: every entry is stored under its normalized path; entries whose
\* normalized path is empty or ends with '/' are skipped
importZip(unzipped) ==
    LET kept == {raw \in DOMAIN unzipped :
                    normalizePath(raw) # <<>> /\ Last(normalizePath(raw)) \notin SlashEnded}
    IN  [p \in {normalizePath(raw) : raw \in kept} |->
            unzipped[CHOOSE raw \in kept : normalizePath(raw) = p]]


----------------------------------------------------------------------------
(* Inputs: the archives a user imports and the values typed into the tools *)

Sword == <<"sword">>
DiamondSword == <<"diamond_", "sword">>
Items == {Sword, DiamondSword}
MaxTag == 2
Tags == 1..MaxTag
Namespaces == {"", "minecraft"}         \* '' selects the default namespace 'mrwm'
PngA == Bytes(<<137, 80, 1>>)
PngB == Bytes(<<137, 80, 2, 2>>)
OggA == Bytes(<<79, 103>>)
Formats == {22, 34, 46, 55}             \* a selection of RESOURCE_PACK_FORMATS and below
BeepId == <<"custom", ".", "beep">>

Gen(ns, item, cmd) == ItemResourceId(ns, CmdName(item, cmd))
RawJson(v) == TextOf("raw", v)
Vanilla(item) == ItemResourceId("minecraft", item)

\* A store given by its set of <<path, payload>> pairs
Store(pairs) == [p \in {e[1] : e \in pairs} |-> (CHOOSE e \in pairs : e[1] = p)[2]]

\* What unzip() returns for each archive: raw entry name -> bytes
Archives ==
    [ \* legacy pack authored by hand: unsorted overrides, one tag twice
      dupes |-> Store({
        <<McmetaPath, RawJson(Mcmeta(34, <<"hand made">>))>>,
        <<<<"assets/">>, Bytes(<<>>)>>,
        <<BaseModelPath("minecraft", Sword),
          RawJson(ModelDoc(GeneratedParent, Vanilla(Sword), TRUE,
                  << Override(2, Gen("mrwm", Sword, 2)),
                     Override(1, Gen("mrwm", Sword, 1)),
                     Override(2, <<"mrwm", ":", "item/", "alt">>) >>))>>,
        <<ItemTexturePath("mrwm", CmdName(Sword, 1)), PngB>> }),
      \* legacy pack with vanilla-style predicates that carry no custom_model_data,
      \* and an override that names no model
      bow |-> Store({
        <<McmetaPath, RawJson(Mcmeta(34, <<"bow">>))>>,
        <<BaseModelPath("minecraft", Sword),
          RawJson(ModelDoc(HandheldParent, Vanilla(Sword), TRUE,
                  << Override(NoNum, <<"minecraft", ":", "item/", "pulling">>) >>))>>,
        <<BaseModelPath("other", DiamondSword),
          RawJson(ModelDoc(HandheldParent, ItemResourceId("other", DiamondSword), TRUE,
                  << Override(NoNum, <<"minecraft", ":", "item/", "pulling">>),
                     Override(2, <<>>),
                     Override(1, Gen("mrwm", DiamondSword, 1)) >>))>> }),
      \* 1.21.4 pack: a dispatch with a nested dispatch entry, next to a legacy document
      modern |-> Store({
        <<McmetaPath, RawJson(Mcmeta(46, <<"modern">>))>>,
        <<ItemDefPath("minecraft", Sword),
          RawJson(ItemDef(Dispatch("range_dispatch", CmdProperty,
                  << Entry(1, Leaf(Gen("mrwm", Sword, 1))),
                     Entry(2, Dispatch(DispatchType, CmdProperty, <<>>, <<>>)) >>,
                  <<Leaf(Vanilla(Sword))>>)))>>,
        <<ItemDefPath("minecraft", DiamondSword), RawJson(ItemDef(OtherNode))>>,
        <<BaseModelPath("minecraft", Sword),
          RawJson(ModelDoc(GeneratedParent, Vanilla(Sword), TRUE,
                  << Override(1, <<"mrwm", ":", "item/", "old">>) >>))>> }),
      \* pack with a document that is not JSON
      broken |-> Store({
        <<McmetaPath, RawJson(Mcmeta(34, <<"broken">>))>>,
        <<BaseModelPath("minecraft", Sword), RawJson(InvalidJson)>>,
        <<SoundsJsonPath("minecraft"), RawJson(InvalidJson)>> }),
      \* pack whose pack.mcmeta has a pack section without pack_format
      noversion |-> Store({
        <<McmetaPath, RawJson(Mcmeta(NoNum, <<"no version">>))>> }),
      \* pack without pack.mcmeta
      nometa |-> Store({
        <<<<"\\", "assets/", "minecraft", "/models/", "item/", "sword", ".json">>,
          RawJson(ModelDoc(GeneratedParent, Vanilla(Sword), TRUE,
                  << Override(1, Gen("mrwm", Sword, 1)) >>))>> }) ]
ArchiveNames == DOMAIN Archives

MixArchives == {"dupes", "modern", "nometa"}   \* the archives dropped on the mixer
OutputName == <<"mixed-pack">>
NoMix == [done |-> FALSE, input |-> <<>>, name |-> <<>>, files |-> EmptyVfs]

NoAction == [op |-> "none", args |-> <<>>, before |-> EmptyVfs, inputAfter |-> EmptyVfs,
             threw |-> FALSE, same |-> FALSE, changes |-> <<>>, warnings |-> <<>>]

----------------------------------------------------------------------------
(* The application: one pack, edited by one tool action at a time *)

\* App.tsx: the pack is created empty with the default settings, or restored from
\* browser storage with whatever an earlier session left there
InitPack ==
    /\ pack \in {createEmptyPack([packFormat |-> DefaultPackFormat,
                                  description |-> DefaultDescription])}
                \cup {importZip(Archives[a]) : a \in ArchiveNames}
    /\ last = NoAction
    /\ last2 = NoAction
    /\ steps = 0
    /\ pending = <<>>

\* A library call on the current pack followed by onPackChange(result), or by the
\* error path, which keeps the current pack object.  r.shared: the map the call
\* wrote to is the map of the current pack.
Adopt(op, args, r, same, changes, warnings) ==
    LET inputAfter == IF r.shared THEN r.files ELSE pack
    IN  /\ steps' = steps + 1
        /\ last2' = last
        /\ last' = [op |-> op, args |-> args, before |-> pack, inputAfter |-> inputAfter,
                    threw |-> r.threw, same |-> same, changes |-> changes,
                    warnings |-> warnings]
        /\ pack' = IF r.threw \/ same THEN inputAfter ELSE r.files
        /\ UNCHANGED <<mixVars, allocVars, pending>>

\* The number of tool actions of a behaviour is bounded
CanAct == steps < MaxSteps

\* CmdTool.apply
ApplyCmd ==
    /\ CanAct
    /\ \E itemId \in Items \cup {<<>>}, cmd \in Tags \cup {0}, ns \in Namespaces :
        LET input == [itemId |-> itemId, customModelData |-> cmd, namespace |-> ns,
                      texturePng |-> PngA]
        IN  \E r \in {applyCustomModelData(pack, input)} :
                Adopt("apply", input, r, FALSE, <<>>, <<>>)

\* ConverterTool.handleConvert
Convert ==
    /\ CanAct
    /\ \E target \in Formats :
        \E r \in {convertPackFormat(pack, target)} :
            Adopt("convert", [target |-> target], r, r.same, r.changes, r.warnings)

\* CmdManager.deleteEntry on a row of the table, confirmed by the user
DeleteEntry ==
    /\ CanAct
    /\ ~findCmdEntriesThrows(pack)
    /\ \E e \in findCmdEntries(pack) :
        \E files \in {deleteEntry(pack, e.item, e.cmd, e.isModern)} :
            Adopt("delete", e, [threw |-> FALSE, shared |-> FALSE, files |-> files],
                  FALSE, <<>>, <<>>)

\* SinglePackWorkspace.onPickFile
ImportZip ==
    /\ CanAct
    /\ \E a \in ArchiveNames :
        \E files \in {importZip(Archives[a])} :
            Adopt("import", [archive |-> a],
                  [threw |-> FALSE, shared |-> FALSE, files |-> files],
                  FALSE, <<>>, <<>>)

\* SinglePackWorkspace.applyMetadata
ApplyMetadata ==
    /\ CanAct
    /\ \E pf \in {0, 34, 46} :
        LET settings == [packFormat |-> pf, description |-> DefaultDescription]
        IN  \E r \in {applyPackSettings(pack, settings)} :
                Adopt("settings", settings, r, FALSE, <<>>, <<>>)

\* VanillaTool.apply
ReplaceTexture ==
    /\ CanAct
    /\ \E target \in { <<>>,
                    <<"item/", "sword">>,
                    <<"mrwm", ":", "/", "item/", "sword", "_cmd_", "1", ".png">>,
                    <<"assets/", "minecraft", "/textures/", "item/", "sword", ".png">> } :
        LET input == [target |-> target, replacementPng |-> PngB]
        IN  \E r \in {replaceVanillaTexture(pack, input)} :
                Adopt("texture", input, r, FALSE, <<>>, <<>>)

\* SoundTool: addSound
AddSound ==
    /\ CanAct
    /\ \E replace \in BOOLEAN :
        LET input == [soundId |-> BeepId, namespace |-> "", soundFile |-> OggA,
                      replace |-> replace]
        IN  \E r \in {addSound(pack, input)} :
                Adopt("addSound", input, r, FALSE, <<>>, <<>>)

\* sounds.ts: removeSound
RemoveSound ==
    /\ CanAct
    /\ \E r \in {removeSound(pack, BeepId, "minecraft")} :
        Adopt("removeSound", [soundId |-> BeepId], r, r.same, <<>>, <<>>)

\* tools.ts: addUnicodeGlyph
AddGlyph ==
    /\ CanAct
    /\ LET input == [fontKey |-> "", png |-> PngA]
       IN  \E r \in {addUnicodeGlyph(pack, input)} :
            Adopt("glyph", input, r, FALSE, <<>>, <<>>)

NextPack ==
    \/ ApplyCmd
    \/ Convert
    \/ DeleteEntry
    \/ ImportZip
    \/ ApplyMetadata
    \/ ReplaceTexture
    \/ AddSound
    \/ RemoveSound
    \/ AddGlyph

\* No codepoint allocation under way
InitAllocIdle ==
    /\ used = {}
    /\ alloc = [fn |-> "none", seed |-> "none", calls |-> 0, attempts |-> 0, singles |-> 0,
                outcome |-> "none", ret |-> NoNum, retWasUsed |-> FALSE, rets |-> <<>>]

Init ==
    /\ InitPack
    /\ mixer = <<>>
    /\ mixed = NoMix
    /\ used = {}
    /\ alloc = [fn |-> "none", seed |-> "none", calls |-> 0, attempts |-> 0, singles |-> 0,
                outcome |-> "none", ret |-> NoNum, retWasUsed |-> FALSE, rets |-> <<>>]

Next == NextPack

Spec == Init /\ [][Next]_vars

\* The codepoint allocators on their own: a set of used codepoints that grows by
\* every value handed out
IdlePack ==
    /\ pack = createEmptyPack([packFormat |-> DefaultPackFormat,
                               description |-> DefaultDescription])
    /\ last = NoAction
    /\ last2 = NoAction
    /\ steps = 0
    /\ pending = <<>>

NextAlloc ==
    \/ AllocateTools
    \/ AllocateTypes

InitAllocation == IdlePack /\ mixer = <<>> /\ mixed = NoMix /\ InitAlloc

SpecAlloc == InitAllocation /\ [][NextAlloc]_vars

----------------------------------------------------------------------------
(* MixerTool.tsx: a list of imported packs in priority order, merged on export *)

\* addFiles: every dropped archive is imported and appended, in the order dropped
AddFiles ==
    \E dropped \in UNION {[1..n -> MixArchives] : n \in 1..2} :
        /\ Len(mixer) + Len(dropped) <= MaxMix
        /\ mixer' = mixer \o [i \in 1..Len(dropped) |-> importZip(Archives[dropped[i]])]
        /\ UNCHANGED <<mixed, packVars, allocVars>>

\* move(from, delta) with 0-based from: splice the pack out and back in at from + delta
Move ==
    \E from \in 0..(Len(mixer) - 1), delta \in {-1, 1} :
        LET to == from + delta
            item == mixer[from + 1]
            without == SubSeq(mixer, 1, from) \o SubSeq(mixer, from + 2, Len(mixer))
        IN  /\ mixer' = IF to < 0 \/ to >= Len(mixer) THEN mixer
                        ELSE SubSeq(without, 1, to) \o <<item>> \o SubSeq(without, to + 1, Len(without))
            /\ UNCHANGED <<mixed, packVars, allocVars>>

\* removeAt(idx) with 0-based idx
RemoveAt ==
    \E idx \in 0..(Len(mixer) - 1) :
        /\ mixer' = SubSeq(mixer, 1, idx) \o SubSeq(mixer, idx + 2, Len(mixer))
        /\ UNCHANGED <<mixed, packVars, allocVars>>

\* exportMixed, behind canExport: packs.length >= 2 && outputName.trim().length > 0
ExportMixed ==
    /\ Len(mixer) >= 2
    /\ \E r \in {mixPacks(mixer, OutputName)} :
          mixed' = [done |-> TRUE, input |-> mixer, name |-> r.name, files |-> r.files]
    /\ UNCHANGED <<mixer, packVars, allocVars>>

\* tools.ts mixPacks called on the list as it stands, whatever its length
CallMixPacks ==
    /\ \E r \in {mixPacks(mixer, <<"merged">>)} :
          mixed' = [done |-> TRUE, input |-> mixer, name |-> r.name, files |-> r.files]
    /\ UNCHANGED <<mixer, packVars, allocVars>>

NextMix ==
    \/ AddFiles
    \/ Move
    \/ RemoveAt
    \/ ExportMixed
    \/ CallMixPacks

InitMix ==
    /\ IdlePack /\ mixer = <<>> /\ mixed = NoMix
    /\ used = {}
    /\ alloc = [fn |-> "none", seed |-> "none", calls |-> 0, attempts |-> 0, singles |-> 0,
                outcome |-> "none", ret |-> NoNum, retWasUsed |-> FALSE, rets |-> <<>>]

SpecMix == InitMix /\ [][NextMix]_vars


----------------------------------------------------------------------------
(* Properties of the Custom Model Data editor and of the manager's delete *)

\* The records of item's override document of one generation, as the tools read them
LegacyRecords(files, itemName) ==
    LET r == readJson(files, <<"assets/", "minecraft", "/models/", "item/">> \o itemName \o <<".json">>)
    IN  IF r.st = "ok" /\ r.v.shape = "model" /\ r.v.hasOverrides THEN r.v.overrides ELSE <<>>
ModernRecords(files, itemName) ==
    LET r == readJson(files, <<"assets/", "minecraft", "/items/">> \o itemName \o <<".json">>)
    IN  IF r.st = "ok" /\ r.v.shape = "itemdef" /\ IsCmdDispatch(r.v.model)
        THEN r.v.model.entries ELSE <<>>
TagsOf(files, itemName, isModern) ==
    IF isModern
    THEN [i \in DOMAIN ModernRecords(files, itemName) |-> ModernRecords(files, itemName)[i].threshold]
    ELSE [i \in DOMAIN LegacyRecords(files, itemName) |-> LegacyRecords(files, itemName)[i].cmd]
TagCount(files, itemName, isModern, t) ==
    Cardinality({i \in DOMAIN TagsOf(files, itemName, isModern) : TagsOf(files, itemName, isModern)[i] = t})
StrictlyAscending(tags) ==
    /\ \A i \in DOMAIN tags : tags[i] # NoNum
    /\ \A i, j \in DOMAIN tags : i < j => tags[i] < tags[j]

\* A pack whose declared version selects the modern generation
IsModernPack(files) == guessPackFormat(files) # NoNum /\ guessPackFormat(files) >= 46

Applied(a) == a.op = "apply" /\ ~a.threw
Deleted(a) == a.op = "delete" /\ ~a.threw
\* The item, the tag and the generation of the document the action a edited
EditedItem(a) == IF a.op = "apply" THEN parseNamespacedId(a.args.itemId).itemName ELSE a.args.item
EditedTag(a) == IF a.op = "apply" THEN a.args.customModelData ELSE a.args.cmd
EditedModern(a) == IF a.op = "apply" THEN IsModernPack(a.before) ELSE a.args.isModern

AppliedTwice ==
    /\ Applied(last2) /\ Applied(last)
    /\ last.args.itemId = last2.args.itemId
    /\ last.args.customModelData = last2.args.customModelData

\* C1 as stated: after two applications of the editor with the same item and tag the
\* item's override document holds exactly one record for that tag.
C1_ExactlyOneAfterTwice ==
    AppliedTwice =>
        TagCount(pack, EditedItem(last), EditedModern(last), EditedTag(last)) = 1

\* C1, amended: the second application with the same item and tag replaces and never
\* inserts, so the document holds as many records for the tag after it as before
\* it; that number is exactly one when the document held at most one record for
\* the tag before the first application.
C1_SecondApplyReplaces ==
    AppliedTwice =>
        /\ TagCount(pack, EditedItem(last), EditedModern(last), EditedTag(last))
             = TagCount(last.before, EditedItem(last), EditedModern(last), EditedTag(last))
        /\ TagCount(last2.before, EditedItem(last), EditedModern(last), EditedTag(last)) <= 1
             => TagCount(pack, EditedItem(last), EditedModern(last), EditedTag(last)) = 1

C1_Witness ==
    /\ AppliedTwice
    /\ TagCount(last2.before, EditedItem(last), EditedModern(last), EditedTag(last)) = 0
    /\ TagCount(pack, EditedItem(last), EditedModern(last), EditedTag(last)) = 1
    /\ Len(TagsOf(pack, EditedItem(last), EditedModern(last))) >= 2

\* C2 as stated: after any insert (editor apply) or delete (manager delete) the
\* records of the edited document are strictly ascending by tag: no tag twice, each
\* greater than its predecessor.
C2_StrictlyAscendingAfterEdit ==
    (Applied(last) \/ Deleted(last)) =>
        StrictlyAscending(TagsOf(pack, EditedItem(last), EditedModern(last)))

\* C2, amended: an insert or a delete preserves the order: when the records of the
\* document were strictly ascending by tag before the edit, they are strictly
\* ascending after it.
C2_EditPreservesStrictOrder ==
    (Applied(last) \/ Deleted(last)) =>
        (StrictlyAscending(TagsOf(last.before, EditedItem(last), EditedModern(last)))
            => StrictlyAscending(TagsOf(pack, EditedItem(last), EditedModern(last))))

C2_Witness ==
    /\ Applied(last)
    /\ Len(TagsOf(last.before, EditedItem(last), EditedModern(last))) >= 1
    /\ StrictlyAscending(TagsOf(last.before, EditedItem(last), EditedModern(last)))
    /\ Len(TagsOf(pack, EditedItem(last), EditedModern(last)))
         > Len(TagsOf(last.before, EditedItem(last), EditedModern(last)))
    /\ EditedTag(last) < TagsOf(last.before, EditedItem(last), EditedModern(last))[1]
    /\ Deleted(last2)

\* C8: a successful application of the editor for item i with tag t keeps every
\* override record of i whose tag differs from t, with the same (tag, model) pair,
\* in i's override document, under the legacy and under the modern generation.
C8_ApplyKeepsOtherRecords ==
    Applied(last) =>
        /\ \A o \in Range(LegacyRecords(last.before, EditedItem(last))) :
              o.cmd # EditedTag(last) => o \in Range(LegacyRecords(pack, EditedItem(last)))
        /\ \A e \in Range(ModernRecords(last.before, EditedItem(last))) :
              e.threshold # EditedTag(last) => e \in Range(ModernRecords(pack, EditedItem(last)))

C8_Witness ==
    /\ Applied(last)
    /\ EditedModern(last)
    /\ \E e \in Range(ModernRecords(last.before, EditedItem(last))) : e.threshold # EditedTag(last)
    /\ \E o \in Range(LegacyRecords(last.before, EditedItem(last))) : o.cmd # EditedTag(last)
    /\ Len(ModernRecords(pack, EditedItem(last))) > Len(ModernRecords(last.before, EditedItem(last)))

----------------------------------------------------------------------------
(* The scenario of a first custom model in a legacy pack *)

\* No document under models/item and none under items
NoItemDocuments(files) ==
    \A path \in DOMAIN files : ~IsItemModelPath(path) /\ ~IsItemDefPath(path)

FirstLegacyApply ==
    /\ Applied(last)
    /\ guessPackFormat(last.before) # NoNum
    /\ guessPackFormat(last.before) < 46
    /\ NoItemDocuments(last.before)

\* C9: in a pack of declared version below 46 without item documents, applying the
\* editor with item i, tag t and namespace n leaves a model document at
\* assets/minecraft/models/item/<i>.json whose overrides are exactly
\* {custom_model_data: t, model: n:item/<i>_cmd_<t>}, a generated model document at
\* assets/n/models/item/<i>_cmd_<t>.json, and the supplied bytes at
\* assets/n/textures/item/<i>_cmd_<t>.png.
C9_FirstLegacyApplyLayout ==
    FirstLegacyApply =>
        LET i == last.args.itemId
            t == last.args.customModelData
            n == IF last.args.namespace = "" THEN "mrwm" ELSE last.args.namespace
            name == i \o <<"_cmd_">> \o Digits(t)
            base == <<"assets/", "minecraft", "/models/", "item/">> \o i \o <<".json">>
            generated == <<"assets/", n, "/models/", "item/">> \o name \o <<".json">>
            texture == <<"assets/", n, "/textures/", "item/">> \o name \o <<".png">>
        IN  /\ base \in DOMAIN pack
            /\ readJson(pack, base).st = "ok"
            /\ readJson(pack, base).v.shape = "model"
            /\ readJson(pack, base).v.hasOverrides
            /\ readJson(pack, base).v.overrides
                 = << [cmd |-> t, model |-> <<n, ":", "item/">> \o name] >>
            /\ generated \in DOMAIN pack
            /\ readJson(pack, generated).st = "ok"
            /\ readJson(pack, generated).v.shape = "model"
            /\ readJson(pack, generated).v.layer0 = <<n, ":", "item/">> \o name
            /\ texture \in DOMAIN pack
            /\ pack[texture] = last.args.texturePng

C9_Witness ==
    /\ FirstLegacyApply
    /\ last.args.itemId = DiamondSword
    /\ last.args.customModelData = 1
    /\ last.args.namespace = ""
    /\ <<"assets/", "minecraft", "/models/", "item/", "diamond_", "sword", ".json">> \in DOMAIN pack

----------------------------------------------------------------------------
(* Clone-then-mutate *)

Mutators == {"apply", "convert", "glyph", "settings", "texture", "addSound", "removeSound"}

\* C7: every mutating entry point, whether it returns a pack or throws, leaves the
\* store of the pack passed in with the same paths and the same payload at each
\* path as before the call.
C7_InputStoreUntouched ==
    last.op \in Mutators =>
        /\ DOMAIN last.inputAfter = DOMAIN last.before
        /\ \A path \in DOMAIN last.before : last.inputAfter[path] = last.before[path]

C7_Witness ==
    /\ last.op \in Mutators /\ last.threw
    /\ last2.op \in Mutators /\ ~last2.threw /\ ~last2.same
    /\ last.before # last2.before
    /\ last2.inputAfter = last2.before

----------------------------------------------------------------------------
(* The converter *)

\* pack_format as convertPackFormat reads it; 0 when it cannot be read
DeclaredFormat(files) ==
    IF readJson(files, McmetaPath).st = "throw" THEN 0
    ELSE CurrentFormat(readJson(files, McmetaPath))

\* a.before was upgraded across the boundary, a's result is the store after it
Upgraded(a) ==
    /\ a.op = "convert" /\ ~a.threw /\ ~a.same
    /\ DeclaredFormat(a.before) < 46
    /\ a.args.target >= 46
Downgraded(a) ==
    /\ a.op = "convert" /\ ~a.threw /\ ~a.same
    /\ DeclaredFormat(a.before) >= 46
    /\ a.args.target < 46

\* The legacy model documents assets/<ns>/models/item/<item>.json of a store that
\* carry overrides
LegacyDocsWithOverrides(files) ==
    {path \in DOMAIN files :
        /\ Len(path) >= 6 /\ path[1] = "assets/" /\ path[3] = "/models/" /\ path[4] = "item/"
        /\ path[Len(path)] = ".json"
        /\ readJson(files, path).st = "ok"
        /\ readJson(files, path).v.shape = "model"
        /\ readJson(files, path).v.hasOverrides
        /\ readJson(files, path).v.overrides # <<>>}
NumericOverrides(files, path) ==
    SelectSeq(readJson(files, path).v.overrides, LAMBDA o : o.cmd # NoNum)
Occurrences(seq, x) == Cardinality({k \in DOMAIN seq : seq[k] = x})

\* The modern document for the legacy document at path is as the upgrade should
\* have left it in the store after, and the legacy document has lost its overrides
UpgradedDocument(before, after, path) ==
    LET ns == path[2]
        item == SubSeq(path, 5, Len(path) - 1)
        modernPath == <<"assets/", ns, "/items/">> \o item \o <<".json">>
        numeric == NumericOverrides(before, path)
        d == readJson(after, modernPath)
        entries == d.v.model.entries
        l == readJson(after, path)
    IN  /\ modernPath \in DOMAIN after
        /\ d.st = "ok" /\ d.v.shape = "itemdef"
        /\ d.v.model.type = "minecraft:range_dispatch"
        /\ d.v.model.property = "minecraft:custom_model_data"
        /\ Len(entries) = Len(numeric)
        /\ \A k \in DOMAIN entries :
              /\ entries[k].model.type = "minecraft:model"
              /\ Occurrences(entries, entries[k])
                   = Occurrences(numeric, [cmd |-> entries[k].threshold,
                                           model |-> entries[k].model.model])
        /\ \A j, k \in DOMAIN entries : j < k => entries[j].threshold <= entries[k].threshold
        /\ d.v.model.fallback = << [type |-> "minecraft:model", model |-> <<ns, ":", "item/">> \o item] >>
        /\ path \in DOMAIN after
        /\ l.st = "ok" /\ l.v.shape = "model"
        /\ ~l.v.hasOverrides

\* C10 as stated: after an upgrade across the boundary every legacy model document
\* with a non-empty overrides array has a modern document with a threshold dispatch
\* root, one entry per numeric-tag override ascending by threshold and a fallback
\* at <ns>:item/<item>, and the legacy document is kept without overrides.
C10_EveryDocWithOverridesUpgraded ==
    Upgraded(last) =>
        \A path \in LegacyDocsWithOverrides(last.before) :
            UpgradedDocument(last.before, pack, path)

\* C10, amended: the same for every legacy model document whose overrides array
\* holds at least one override with a numeric tag.
C10_EveryDocWithNumericOverridesUpgraded ==
    Upgraded(last) =>
        \A path \in LegacyDocsWithOverrides(last.before) :
            NumericOverrides(last.before, path) # <<>>
                => UpgradedDocument(last.before, pack, path)

C10_Witness ==
    /\ Upgraded(last)
    /\ \E path \in LegacyDocsWithOverrides(last.before) :
          /\ Len(NumericOverrides(last.before, path)) >= 2
          /\ Len(NumericOverrides(last.before, path)) < Len(readJson(last.before, path).v.overrides)
          /\ path[2] # "minecraft"
          /\ UpgradedDocument(last.before, pack, path)

\* A legacy pack made of single-level overrides only: a readable declared version
\* below 46, no modern item document, and every override with a numeric tag and a
\* model id
SingleLevelLegacy(files) ==
    /\ DeclaredFormat(files) > 0
    /\ DeclaredFormat(files) < 46
    /\ \A path \in DOMAIN files : ~IsItemDefPath(path)
    /\ \A path \in LegacyDocsWithOverrides(files) :
          \A o \in Range(readJson(files, path).v.overrides) : o.cmd # NoNum /\ o.model # <<>>

\* The override set of the document at path, as a set of (tag, modelId) pairs
OverrideSet(files, path) ==
    IF path \in LegacyDocsWithOverrides(files)
    THEN {<<o.cmd, o.model>> : o \in Range(readJson(files, path).v.overrides)}
    ELSE {}

RoundTrip ==
    /\ Upgraded(last2) /\ Downgraded(last)
    /\ SingleLevelLegacy(last2.before)
    /\ last.args.target = DeclaredFormat(last2.before)

\* C3: for a legacy pack p of single-level overrides, converting to 46 + k and back
\* to the version p declared restores, for every item document, an override set
\* equal as a set of (tag, modelId) pairs to the one in p.
C3_RoundTripRestoresOverrides ==
    RoundTrip =>
        /\ DeclaredFormat(pack) = DeclaredFormat(last2.before)
        /\ \A path \in DOMAIN last2.before \cup DOMAIN pack :
              IsItemModelPath(path) => OverrideSet(pack, path) = OverrideSet(last2.before, path)

C3_Witness ==
    /\ RoundTrip
    /\ last2.args.target > 46
    /\ \E path \in DOMAIN pack : Cardinality(OverrideSet(pack, path)) >= 3
    /\ \E path \in DOMAIN last.before : IsItemDefPath(path)

----------------------------------------------------------------------------
(* The mixer *)

\* C4: mixPacks yields a store whose paths are the union of the paths of the input
\* stores, each mapped to the payload of the last pack in the given order that
\* holds it; for a single pack the result equals that pack's store.
C4_MixIsUnionLaterWins ==
    mixed.done =>
        /\ DOMAIN mixed.files = UNION {DOMAIN mixed.input[i] : i \in DOMAIN mixed.input}
        /\ \A path \in DOMAIN mixed.files :
              \E i \in DOMAIN mixed.input :
                  /\ path \in DOMAIN mixed.input[i]
                  /\ \A j \in DOMAIN mixed.input : j > i => path \notin DOMAIN mixed.input[j]
                  /\ mixed.files[path] = mixed.input[i][path]
        /\ Len(mixed.input) = 1 => mixed.files = mixed.input[1]

C4_Witness ==
    /\ mixed.done
    /\ Len(mixed.input) = 3
    /\ \E path \in DOMAIN mixed.input[1] \cap DOMAIN mixed.input[2] \cap DOMAIN mixed.input[3] :
          /\ mixed.input[3][path] # mixed.input[2][path]
          /\ mixed.input[3][path] # mixed.input[1][path]
          /\ mixed.files[path] = mixed.input[3][path]
    /\ \E path \in DOMAIN mixed.input[1] : path \notin DOMAIN mixed.input[3]
    /\ Len(mixer) = 1

----------------------------------------------------------------------------
(* The codepoint allocators *)

BasicPUA == PUA_START..PUA_END
ReservedCount == PUA_END - PUA_START + 1

\* C5 as stated: the allocator never returns a value of its input set, and every
\* value it returns lies within U+E000..U+F8FF.
C5_FreshAndInBasicRange ==
    ~alloc.retWasUsed /\ \A k \in DOMAIN alloc.rets : alloc.rets[k] \in BasicPUA

\* C5, amended: neither allocator returns a value of its input set;
\* findFreePrivateUseCodepoint returns values within U+E000..U+F8FF only;
\* getNextAvailableCodepoint returns a value within U+E000..U+F8FF, or, when every
\* value of that range is in its input set, a value within U+F0000..U+FFFFD.
C5_FreshAndInRangeOfAllocator ==
    /\ ~alloc.retWasUsed
    /\ alloc.fn = "findFreePrivateUseCodepoint" =>
          \A k \in DOMAIN alloc.rets : alloc.rets[k] \in BasicPUA
    /\ alloc.fn = "getNextAvailableCodepoint" =>
          \A k \in DOMAIN alloc.rets :
              \/ alloc.rets[k] \in BasicPUA
              \/ /\ alloc.rets[k] \in PUA_SUPPLEMENTARY_START..PUA_SUPPLEMENTARY_END
                 /\ BasicPUA \subseteq used \ {alloc.rets[j] : j \in k..Len(alloc.rets)}

C5_Witness ==
    /\ alloc.outcome = "ok"
    /\ alloc.fn = "getNextAvailableCodepoint"
    /\ alloc.seed = "full"
    /\ alloc.ret = PUA_SUPPLEMENTARY_START + 1
    /\ PUA_SUPPLEMENTARY_START \in used

\* C6 as stated: from the empty set, adding each returned value to the set, the
\* allocator succeeds exactly 6,400 times with pairwise distinct values and its
\* 6,401st call fails.
C6_ExhaustedAfterReservedRange ==
    alloc.seed = "empty" =>
        /\ Cardinality(used) = alloc.calls
        /\ alloc.calls <= ReservedCount
        /\ alloc.attempts > ReservedCount => alloc.outcome = "exhausted"
        /\ alloc.outcome = "exhausted" => alloc.calls = ReservedCount

\* C6, amended: from the empty set, adding each returned value to the set, both
\* allocators succeed 6,400 times with pairwise distinct values of U+E000..U+F8FF;
\* the 6,401st call of findFreePrivateUseCodepoint fails, the 6,401st call of
\* getNextAvailableCodepoint returns U+F0000.
C6_AfterReservedRangePerAllocator ==
    alloc.seed = "empty" =>
        /\ Cardinality(used) = alloc.calls
        /\ alloc.calls <= ReservedCount => used \subseteq BasicPUA
        /\ alloc.outcome = "exhausted" => alloc.calls = ReservedCount
        /\ alloc.fn = "findFreePrivateUseCodepoint" =>
              /\ alloc.calls <= ReservedCount
              /\ alloc.attempts > ReservedCount => alloc.outcome = "exhausted"
        /\ alloc.fn = "getNextAvailableCodepoint" =>
              /\ alloc.outcome # "exhausted"
              /\ alloc.calls = ReservedCount + 1 => alloc.ret = PUA_SUPPLEMENTARY_START

C6_Witness ==
    /\ alloc.seed = "empty"
    /\ alloc.fn = "findFreePrivateUseCodepoint"
    /\ alloc.attempts = ReservedCount + 1
    /\ alloc.calls = ReservedCount
    /\ alloc.outcome = "exhausted"
    /\ used = BasicPUA

----------------------------------------------------------------------------
(* The converter: the metadata rewrite *)

Converted(a) == a.op = "convert" /\ ~a.threw
MetaHasPack(files) ==
    /\ readJson(files, McmetaPath).st = "ok"
    /\ readJson(files, McmetaPath).v.shape = "mcmeta"
    /\ readJson(files, McmetaPath).v.hasPack
MetaRewritten(a, after) ==
    /\ a.changes # <<>>
    /\ a.changes[1] = [c |-> "meta", from |-> DeclaredFormat(a.before), to |-> a.args.target]
    /\ MetaHasPack(after)
    /\ readJson(after, McmetaPath).v.pack_format = a.args.target

\* C11 as stated: whenever the declared version of the input differs from the
\* target, the returned package declares the target version and the first change
\* records the metadata rewrite, for every input package, also one whose version
\* could not be determined.
C11_AlwaysRewritesMetadataFirst ==
    (Converted(last) /\ DeclaredFormat(last.before) # last.args.target)
        => MetaRewritten(last, pack)

\* C11, amended: the same whenever the input's metadata document has a pack
\* section (with or without a readable version); when the metadata document is
\* absent or has no pack section, no metadata document is written and no
\* metadata change is recorded.
C11_RewritesMetadataWhenPackSection ==
    (Converted(last) /\ DeclaredFormat(last.before) # last.args.target) =>
        /\ MetaHasPack(last.before) => MetaRewritten(last, pack)
        /\ ~MetaHasPack(last.before) =>
              /\ \A k \in DOMAIN last.changes : last.changes[k].c # "meta"
              /\ (McmetaPath \in DOMAIN pack) = (McmetaPath \in DOMAIN last.before)
              /\ McmetaPath \in DOMAIN pack => pack[McmetaPath] = last.before[McmetaPath]

C11_Witness ==
    /\ Converted(last)
    /\ MetaHasPack(last.before)
    /\ readJson(last.before, McmetaPath).v.pack_format = NoNum
    /\ Len(last.warnings) >= 1
    /\ MetaRewritten(last, pack)

----------------------------------------------------------------------------
(* The converter: downgrade across the boundary *)

\* The modern per-item documents assets/<ns>/items/<item>.json of a store whose root
\* is a threshold dispatch on the custom-model-data property
CmdDispatchDocs(files) ==
    {path \in DOMAIN files :
        /\ Len(path) >= 5 /\ path[1] = "assets/" /\ path[3] = "/items/"
        /\ path[Len(path)] = ".json"
        /\ readJson(files, path).st = "ok"
        /\ readJson(files, path).v.shape = "itemdef"
        /\ readJson(files, path).v.model.type \in {"minecraft:range_dispatch", "range_dispatch"}
        /\ readJson(files, path).v.model.property = "minecraft:custom_model_data"}
\* The entries with a numeric threshold and a resolved leaf model
UsableEntries(files, path) ==
    SelectSeq(readJson(files, path).v.model.entries,
              LAMBDA e : e.threshold # NoNum /\ "model" \in DOMAIN e.model /\ e.model.model # <<>>)

\* The modern document at path is gone from the store after, and the legacy
\* document of the same namespace and item carries one override per usable entry
DowngradedDocument(before, after, path) ==
    LET ns == path[2]
        item == SubSeq(path, 4, Len(path) - 1)
        legacyPath == <<"assets/", ns, "/models/", "item/">> \o item \o <<".json">>
        usable == UsableEntries(before, path)
        l == readJson(after, legacyPath)
        overrides == l.v.overrides
    IN  /\ path \notin DOMAIN after
        /\ legacyPath \in DOMAIN after
        /\ l.st = "ok" /\ l.v.shape = "model" /\ l.v.hasOverrides
        /\ Len(overrides) = Len(usable)
        /\ \A k \in DOMAIN overrides :
              Occurrences(overrides, overrides[k])
                = Occurrences(usable, [threshold |-> overrides[k].cmd,
                                       model |-> Leaf(overrides[k].model)])
        /\ \A j, k \in DOMAIN overrides : j < k => overrides[j].cmd <= overrides[k].cmd

\* C12 as stated: after a downgrade across the boundary every modern document whose
\* root is a threshold dispatch on custom model data is absent, and the legacy
\* document of its item carries one override per entry with a numeric threshold
\* and a resolved leaf model, ascending by tag.
C12_EveryDispatchDocDowngraded ==
    Downgraded(last) =>
        \A path \in CmdDispatchDocs(last.before) : DowngradedDocument(last.before, pack, path)

\* C12, amended: the same for every such modern document that has at least one
\* entry with a numeric threshold and a resolved leaf model; a document without
\* such an entry is kept as it is.
C12_DispatchDocWithUsableEntriesDowngraded ==
    Downgraded(last) =>
        \A path \in CmdDispatchDocs(last.before) :
            IF UsableEntries(last.before, path) # <<>>
            THEN DowngradedDocument(last.before, pack, path)
            ELSE path \in DOMAIN pack /\ pack[path] = last.before[path]

C12_Witness ==
    /\ Downgraded(last)
    /\ \E path \in CmdDispatchDocs(last.before) :
          /\ Len(UsableEntries(last.before, path)) >= 1
          /\ Len(UsableEntries(last.before, path))
               < Len(readJson(last.before, path).v.model.entries)
          /\ DowngradedDocument(last.before, pack, path)

----------------------------------------------------------------------------
(* The converter: nested dispatch entries *)

\* The entries of the dispatch document at path whose model is itself a dispatch node
NestedEntries(files, path) ==
    SelectSeq(readJson(files, path).v.model.entries,
              LAMBDA e : e.model.type \in {"minecraft:range_dispatch", "range_dispatch"})
\* The warnings convertPackFormat issues about the package as a whole
PackWarnings ==
    {"Could not determine current pack format", "Pack is already at target format",
     "No legacy item model overrides found to convert",
     "No modern item definitions found to convert"}

\* C13: when a downgrade meets an entry whose model is a nested dispatch node, the
\* entry is left out of the converted overrides, the result's warnings hold a
\* warning for it, and the other entries of the document are converted.
C13_NestedEntryDroppedWithWarning ==
    Downgraded(last) =>
        \A path \in CmdDispatchDocs(last.before) :
            (NestedEntries(last.before, path) # <<>> /\ UsableEntries(last.before, path) # <<>>)
                => /\ DowngradedDocument(last.before, pack, path)
                   /\ \E k \in DOMAIN last.warnings : last.warnings[k] \notin PackWarnings

----------------------------------------------------------------------------
(* The converter: what a migration leaves alone *)

\* assets/<ns>/items/<item>.json
IsModernItemDocument(path) ==
    Len(path) >= 5 /\ path[1] = "assets/" /\ path[3] = "/items/" /\ path[Len(path)] = ".json"
\* assets/<ns>/models/item/<item>.json carrying an overrides array in the store
CarriesOverrides(files, path) ==
    /\ path \in DOMAIN files
    /\ Len(path) >= 6 /\ path[1] = "assets/" /\ path[3] = "/models/" /\ path[4] = "item/"
    /\ path[Len(path)] = ".json"
    /\ readJson(files, path).st = "ok"
    /\ readJson(files, path).v.shape = "model"
    /\ readJson(files, path).v.hasOverrides
\* The override-indirection documents of a conversion from before to after
IsIndirection(before, after, path) ==
    \/ path = McmetaPath
    \/ IsModernItemDocument(path)
    \/ CarriesOverrides(before, path)
    \/ CarriesOverrides(after, path)
SameAt(before, after, path) ==
    /\ (path \in DOMAIN before) = (path \in DOMAIN after)
    /\ path \in DOMAIN before => before[path] = after[path]

\* C14: a conversion leaves every path other than the metadata document, the
\* per-item legacy model documents that carry overrides and the per-item modern
\* documents with the same presence and the same payload, in both directions.
C14_MigrationTouchesOnlyIndirection ==
    Converted(last) =>
        \A path \in DOMAIN last.before \cup DOMAIN pack :
            ~IsIndirection(last.before, pack, path) => SameAt(last.before, pack, path)

C14_Witness ==
    /\ Upgraded(last) /\ Downgraded(last2)
    /\ Len(last.changes) >= 3
    /\ \E path \in DOMAIN pack :
          /\ ~IsIndirection(last.before, pack, path)
          /\ pack[path].k = "text"
          /\ SameAt(last.before, pack, path)
    /\ \E path \in DOMAIN pack : pack[path].k = "bin"

----------------------------------------------------------------------------
(* The converter: target equal to the current version *)

\* The metadata document of the store declares version pf
Declares(files, pf) ==
    /\ MetaHasPack(files)
    /\ readJson(files, McmetaPath).v.pack_format = pf

\* C15: when the input declares the target version, convertPackFormat returns the
\* input package with the same store content, a warning and no changes.
C15_SameVersionReturnsInput ==
    (last.op = "convert" /\ Declares(last.before, last.args.target)) =>
        /\ ~last.threw
        /\ last.same
        /\ pack = last.before
        /\ last.changes = <<>>
        /\ \E k \in DOMAIN last.warnings : last.warnings[k] = "Pack is already at target format"

C15_Witness ==
    /\ last.op = "convert" /\ Declares(last.before, last.args.target)
    /\ last.args.target >= 46
    /\ \E path \in DOMAIN pack : IsModernItemDocument(path)
    /\ \E path \in DOMAIN pack : CarriesOverrides(pack, path)
    /\ Len(last.warnings) = 1

----------------------------------------------------------------------------
(* The converter: no boundary crossed *)

SameSide(a, b) == (a < 46 /\ b < 46) \/ (a >= 46 /\ b >= 46)

\* C16: when the current and the target version differ and lie on the same side of
\* 46, convertPackFormat only rewrites the metadata: every other path is unchanged
\* and no override document is created, rewritten or deleted.
C16_SameSideOnlyMetadata ==
    (/\ last.op = "convert"
     /\ DeclaredFormat(last.before) # last.args.target
     /\ SameSide(DeclaredFormat(last.before), last.args.target)) =>
        /\ ~last.threw
        /\ \A path \in (DOMAIN last.before \cup DOMAIN pack) \ {McmetaPath} :
              SameAt(last.before, pack, path)
        /\ \A k \in DOMAIN last.changes : last.changes[k].c = "meta"

C16_Witness ==
    /\ last.op = "convert" /\ ~last.threw
    /\ DeclaredFormat(last.before) \in {22, 34}
    /\ last.args.target \in {22, 34}
    /\ DeclaredFormat(last.before) < last.args.target
    /\ Len(last.changes) = 1
    /\ pack # last.before
    /\ \E path \in DOMAIN pack :
          CarriesOverrides(pack, path) /\ NumericOverrides(pack, path) # <<>>

----------------------------------------------------------------------------
(* The editor: validation of the variant tag *)

\* The numbers CmdTool can hand to applyCustomModelData: setCmd(Number(e.target.value))
TagNumbers == Tags \cup {0, -2, Half(0), Half(1), NaN, Infinity}

\* CmdTool.apply with any number typed into the tag field
ApplyCmdNumber ==
    /\ CanAct
    /\ \E itemId \in Items, cmd \in TagNumbers, ns \in Namespaces :
        LET input == [itemId |-> itemId, customModelData |-> cmd, namespace |-> ns,
                      texturePng |-> PngA]
        IN  \E r \in {applyCustomModelData(pack, input)} :
                Adopt("apply", input, r, FALSE, <<>>, <<>>)

NextTags == ApplyCmdNumber

SpecTags == Init /\ [][NextTags]_vars

\* A finite positive integer
IsPositiveInteger(x) == IsFinite(x) /\ ~IsHalf(x) /\ x > 0

\* C17: applyCustomModelData fails, returning no package and leaving the input
\* store untouched, whenever the tag is not a finite positive integer: zero,
\* negative, non-finite, or positive but not an integer.
C17_InvalidTagRejected ==
    (last.op = "apply" /\ ~IsPositiveInteger(last.args.customModelData)) =>
        /\ last.threw
        /\ last.inputAfter = last.before
        /\ pack = last.before

----------------------------------------------------------------------------
(* The document accessor: readJson and readPackMetadata *)

\* PackMetadata | null; the call throws when readJson throws
readPackMetadata(files) ==
    LET r == readJson(files, McmetaPath)
    IN  IF r.st = "throw" THEN [st |-> "throw"]
        ELSE IF r.st = "null" THEN [st |-> "null"]
        ELSE IF r.v.shape # "mcmeta" \/ ~r.v.hasPack \/ r.v.pack_format = NoNum
             THEN [st |-> "null"]
        ELSE [st |-> "ok", v |-> [packFormat |-> r.v.pack_format,
                                  description |-> r.v.description]]

\* An archive whose pack.mcmeta is not JSON
BadMetaArchive ==
    Store({ <<McmetaPath, RawJson(InvalidJson)>>,
            <<ItemTexturePath("minecraft", Sword), PngA>> })
AbsentPath == <<"assets/", "minecraft", "/models/", "item/", "absent", ".json">>

InitRead ==
    /\ pack \in {importZip(Archives[a]) : a \in ArchiveNames} \cup {importZip(BadMetaArchive)}
    /\ last = NoAction /\ last2 = NoAction /\ steps = 0 /\ pending = <<>>
    /\ mixer = <<>> /\ mixed = NoMix /\ InitAllocIdle

\* A caller reads the document at a path of the pack
ReadJson ==
    /\ CanAct
    /\ \E path \in DOMAIN pack \cup {AbsentPath} :
        \E r \in {readJson(pack, path)} :
            Adopt("readJson", [path |-> path, result |-> r],
                  [threw |-> r.st = "throw", shared |-> FALSE, files |-> pack],
                  TRUE, <<>>, <<>>)

\* SinglePackWorkspace.onPickFile: readPackMetadata(imported)
ReadPackMetadata ==
    /\ CanAct
    /\ \E r \in {readPackMetadata(pack)} :
          Adopt("readPackMetadata", [path |-> McmetaPath, result |-> r],
                [threw |-> r.st = "throw", shared |-> FALSE, files |-> pack],
                TRUE, <<>>, <<>>)

NextRead ==
    \/ ReadJson
    \/ ReadPackMetadata

SpecRead == InitRead /\ [][NextRead]_vars

\* The document at the path is absent from the store or is not parseable
AbsentOrUnparseable(files, path) ==
    \/ path \notin DOMAIN files
    \/ files[path].k = "bin"
    \/ files[path].v \in {InvalidJson, EmptyText}
LacksNumericVersion(files) ==
    \/ AbsentOrUnparseable(files, McmetaPath)
    \/ ~files[McmetaPath].v.hasPack
    \/ files[McmetaPath].v.pack_format = NoNum

\* C18: readJson never raises and returns null for an absent path and for a
\* payload that is not a parseable document; readPackMetadata therefore returns
\* null when the metadata document is absent, unparseable or without a numeric
\* version.
C18_ReadJsonNeverRaises ==
    /\ last.op = "readJson" =>
          /\ ~last.threw
          /\ AbsentOrUnparseable(last.before, last.args.path) => last.args.result.st = "null"
    /\ last.op = "readPackMetadata" =>
          /\ ~last.threw
          /\ LacksNumericVersion(last.before) => last.args.result.st = "null"

----------------------------------------------------------------------------
(* fonts.ts, GlyphTool.tsx, JsonEditorTool.tsx: the font builder and the JSON
   editor *)

\* `${FONT_BASE_PATH}${fontName}.json`
FontFilePath(fontName) == <<"assets/", "minecraft", "/font/">> \o fontName \o JsonExt
\* `${TEXTURE_BASE_PATH}${file.name}`
FontTexturePath(fileName) == <<"assets/", "minecraft", "/textures/", "font/">> \o fileName

\* pack.files.get(path), JSON.parse inside try/catch: null when the document is
\* absent or unparseable
readFontFile(files, fontName) ==
    LET path == FontFilePath(fontName)
    IN  IF path \notin DOMAIN files THEN [null |-> TRUE]
        ELSE IF Unparseable(files[path]) \/ IsEmptyText(files[path]) THEN [null |-> TRUE]
        ELSE [null |-> FALSE, v |-> files[path].v]

\* newFiles = new Map(pack.files); newFiles.set(path, data): the key is the
\* concatenation itself
writeFontFile(files, fontName, definition) ==
    LET path == FontFilePath(fontName)
    IN  [q \in DOMAIN files \cup {path} |->
            IF q = path THEN TextOf("indent2", definition) ELSE files[q]]

\* file: [name, data]
uploadFontTexture(files, file) ==
    LET path == FontTexturePath(file.name)
    IN  [q \in DOMAIN files \cup {path} |-> IF q = path THEN file.data ELSE files[q]]

\* file: `minecraft:font/${textureName}`
createBitmapProvider(textureName, chars, height, ascent) ==
    BitmapProvider(<<"minecraft", ":", "font/">> \o textureName, ascent, height, chars)

createDefaultFontDefinition(textureName, chars) ==
    FontDoc(<< createBitmapProvider(textureName, chars, 8, 7) >>)

createUnicodeBitmapProvider(unicodeChar, textureName, height, ascent) ==
    BitmapProvider(<<"minecraft", ":", "font/">> \o textureName, ascent, height,
                   << <<unicodeChar>> >>)

\* no error is reported for the definition
validateFontDefinition(definition) ==
    /\ definition.providers # <<>>
    /\ \A provider \in Range(definition.providers) :
          provider.type = "bitmap" =>
              /\ provider.file # <<>>
              /\ provider.height > 0
              /\ provider.chars # <<>>

\* the code points of the rows; chars is the collection of rows, whose order
\* does not matter here
extractUsedCodepoints(chars) == UNION {Range(row) : row \in chars}

\* providers.filter((p) => p.type === 'bitmap').flatMap((p) => p.chars)
BitmapChars(providers) ==
    UNION {Range(provider.chars) : provider \in {p \in Range(providers) : p.type = "bitmap"}}

\* fonts.ts addUnicodeGlyph: [...currentFont.providers, provider] raises when the
\* document at the font path has no providers
addUnicodeGlyphToFont(files, unicodeChar, textureName, height, ascent, fontName) ==
    LET currentFont == readFontFile(files, fontName)
        providers == IF currentFont.null THEN <<>> ELSE currentFont.v.providers
        provider == createUnicodeBitmapProvider(unicodeChar, textureName, height, ascent)
    IN  IF ~currentFont.null /\ currentFont.v.shape # "font"
        THEN [threw |-> TRUE, files |-> files]
        ELSE [threw |-> FALSE,
              files |-> writeFontFile(files, fontName, FontDoc(Append(providers, provider)))]

\* GlyphTool.handleCreateFont; textureName, height and ascent keep their defaults
handleCreateFont(files, selectedFont, chars) ==
    LET definition == createDefaultFontDefinition(<<"custom", ".png">>, chars)
    IN  IF chars = <<>> \/ ~validateFontDefinition(definition)
        THEN [threw |-> TRUE, files |-> files, shared |-> FALSE]
        ELSE [threw |-> FALSE, shared |-> FALSE,
              files |-> writeFontFile(files, selectedFont, definition)]

\* GlyphTool.handleAddProvider
handleAddProvider(files, selectedFont, chars) ==
    LET currentFont == readFontFile(files, selectedFont)
        provider == createBitmapProvider(<<"custom", ".png">>, chars, 8, 7)
    IN  IF currentFont.null \/ chars = <<>> \/ currentFont.v.shape # "font"
        THEN [threw |-> TRUE, files |-> files, shared |-> FALSE]
        ELSE LET updatedDefinition == FontDoc(Append(currentFont.v.providers, provider))
             IN  IF ~validateFontDefinition(updatedDefinition)
                 THEN [threw |-> TRUE, files |-> files, shared |-> FALSE]
                 ELSE [threw |-> FALSE, shared |-> FALSE,
                       files |-> writeFontFile(files, selectedFont, updatedDefinition)]

\* GlyphTool.handleFileUpload
handleFileUpload(files, file) ==
    IF ~EndsWith(file.name, PngExt)
    THEN [threw |-> TRUE, files |-> files, shared |-> FALSE]
    ELSE [threw |-> FALSE, shared |-> FALSE, files |-> uploadFontTexture(files, file)]

\* The loop of handleUnicodeImageUpload over the chosen files
RECURSIVE UploadEach(_, _, _, _)
UploadEach(updatedPack, usedCodepoints, selectedFont, uploads) ==
    IF uploads = <<>> THEN [threw |-> FALSE, files |-> updatedPack]
    ELSE LET file == Head(uploads)
         IN  IF ~EndsWith(file.name, PngExt)
             THEN UploadEach(updatedPack, usedCodepoints, selectedFont, Tail(uploads))
             ELSE LET uploaded == uploadFontTexture(updatedPack, file)
                      found == getNextAvailableCodepoint(usedCodepoints)
                      added == addUnicodeGlyphToFont(uploaded, found.cp, file.name, 8, 7,
                                                     selectedFont)
                  IN  IF ~found.ok \/ added.threw THEN [threw |-> TRUE, files |-> updatedPack]
                      ELSE UploadEach(added.files, usedCodepoints \cup {found.cp},
                                      selectedFont, Tail(uploads))

\* GlyphTool.handleUnicodeImageUpload: the pack changes only when every file went
\* through
handleUnicodeImageUpload(files, selectedFont, uploads) ==
    LET currentFont == readFontFile(files, selectedFont)
    IN  IF uploads = <<>> \/ (~currentFont.null /\ currentFont.v.shape # "font")
        THEN [threw |-> TRUE, files |-> files, shared |-> FALSE]
        ELSE LET usedCodepoints ==
                     IF currentFont.null THEN {}
                     ELSE extractUsedCodepoints(BitmapChars(currentFont.v.providers))
                 r == UploadEach(files, usedCodepoints, selectedFont, uploads)
             IN  [threw |-> r.threw, shared |-> FALSE,
                  files |-> IF r.threw THEN files ELSE r.files]

\* validation.ts validateJson: JSON.parse(jsonString) succeeds
validateJson(content) == ~Unparseable(content) /\ ~IsEmptyText(content)

writeText(files, path, text) == vfsSet(files, path, text)

\* JsonEditorTool.loadFile: the editor's text after loading an existing document
LoadedContent(files, path) ==
    LET text == readText(files, path)
    IN  IF Unparseable(text.payload) \/ IsEmptyText(text.payload) THEN text.payload
        ELSE TextOf("indent2", text.payload.v)

\* JsonEditorTool.createNewFile: '{\n  \n}'
EmptyObject == [shape |-> "object"]
NewFileContent == TextOf("typed", EmptyObject)

\* What Save Changes can write for a path picked from the list (loaded: the
\* editor stays closed when readText finds nothing at the path) or typed into
\* the New File prompt
EditorContents(files, path) ==
    IF path \in DOMAIN files
    THEN IF readText(files, path).null THEN {} ELSE {LoadedContent(files, path)}
    ELSE {NewFileContent}

\* JsonEditorTool.saveFile
saveFile(files, path, content) ==
    IF ~validateJson(content) THEN [threw |-> TRUE, files |-> files, shared |-> FALSE]
    ELSE LET c == cloneVfs(files)
         IN  [threw |-> FALSE, shared |-> c.shared, files |-> writeText(c.files, path, content)]

\* What the user types and picks in the font builder
FontNames == { <<"default">>, <<"ui", "\\", "hud">> }
CharMappings == { << <<65, 66>> >>, << <<66>>, <<PUA_START>> >> }
FontUploads ==
    [ icon   |-> [name |-> <<"icon", ".png">>, data |-> PngA],
      nested |-> [name |-> <<"hud", "\\", "bar", ".png">>, data |-> PngA],
      notes  |-> [name |-> <<"notes", ".txt">>, data |-> PngA] ]
UploadLists ==
    { <<FontUploads.icon>>, <<FontUploads.icon, FontUploads.nested>>,
      <<FontUploads.notes, FontUploads.icon>> }
\* Paths typed into the New File prompt
NewJsonPaths == { <<"\\", "assets/", "minecraft", "/font/", "default", ".json">> }

\* GlyphTool: Create Font
CreateFont ==
    /\ CanAct
    /\ \E selectedFont \in FontNames, chars \in CharMappings :
        \E r \in {handleCreateFont(pack, selectedFont, chars)} :
            Adopt("createFont", [font |-> selectedFont, chars |-> chars], r, FALSE, <<>>, <<>>)

\* GlyphTool: Add Provider
AddProvider ==
    /\ CanAct
    /\ \E selectedFont \in FontNames, chars \in CharMappings :
        \E r \in {handleAddProvider(pack, selectedFont, chars)} :
            Adopt("addProvider", [font |-> selectedFont, chars |-> chars], r, FALSE, <<>>, <<>>)

\* GlyphTool: Upload PNG
UploadTexture ==
    /\ CanAct
    /\ \E name \in DOMAIN FontUploads :
        \E r \in {handleFileUpload(pack, FontUploads[name])} :
            Adopt("uploadFontTexture", [file |-> FontUploads[name].name], r, FALSE, <<>>, <<>>)

\* GlyphTool: the Unicode tab's image upload
UploadUnicodeImages ==
    /\ CanAct
    /\ \E selectedFont \in FontNames, uploads \in UploadLists :
        \E r \in {handleUnicodeImageUpload(pack, selectedFont, uploads)} :
            Adopt("uploadUnicode", [font |-> selectedFont, uploads |-> uploads], r,
                  FALSE, <<>>, <<>>)

\* JsonEditorTool: Load File or New File, then Save Changes
SaveJson ==
    /\ CanAct
    /\ \E path \in {p \in DOMAIN pack : IsJsonFile(p)} \cup NewJsonPaths :
        \E content \in EditorContents(pack, path) :
            \E r \in {saveFile(pack, path, content)} :
                Adopt("saveJson", [path |-> path], r, FALSE, <<>>, <<>>)

NextFont ==
    \/ CreateFont
    \/ AddProvider
    \/ UploadTexture
    \/ UploadUnicodeImages
    \/ SaveJson
    \/ AddGlyph

SpecFont == Init /\ [][NextFont]_vars

\* C19: after any sequence of package operations every key of the package's file
\* store is non-empty and contains no backslash.
C19_KeysNormalised ==
    \A path \in DOMAIN pack : path # <<>> /\ "\\" \notin Range(path)

\* Two different bitmap providers of the document declare the same character
Overlapping(providers) ==
    \E i, j \in DOMAIN providers :
        /\ i < j
        /\ providers[i].type = "bitmap" /\ providers[j].type = "bitmap"
        /\ extractUsedCodepoints(Range(providers[i].chars))
             \cap extractUsedCodepoints(Range(providers[j].chars)) # {}

FontDocuments(files) ==
    {path \in DOMAIN files : files[path].k = "text" /\ files[path].v.shape = "font"}

\* C20: after any sequence of glyph and provider additions (tools.ts
\* addUnicodeGlyph, the Unicode image upload, Add Provider) no character is
\* declared by two different bitmap providers of one font document.
C20_NoCharacterInTwoProviders ==
    (last.op \in {"glyph", "uploadUnicode", "addProvider"} /\ ~last.threw) =>
        \A path \in FontDocuments(pack) :
            (path \in FontDocuments(last.before) =>
                 ~Overlapping(last.before[path].v.providers))
            => ~Overlapping(pack[path].v.providers)

----------------------------------------------------------------------------
(* analysis.ts: findDuplicateTextures *)

MaxAnalyses == 1   \* analysis calls per behaviour

\* hash = ((hash << 5) - hash + data[i]) | 0: 31 * hash + data[i] modulo 2^32.
\* A 32-bit value is carried as its two 16-bit halves <<high, low>>;
\* toString(36) is one-to-one, so the value stands for the string
HashStep(hash, byte) ==
    LET low == hash[2] * 31 + byte
    IN  <<(hash[1] * 31 + (low \div 65536)) % 65536, low % 65536>>

RECURSIVE HashFrom(_, _)
HashFrom(hash, data) ==
    IF data = <<>> THEN hash ELSE HashFrom(HashStep(hash, Head(data)), Tail(data))

simpleHash(data) == HashFrom(<<0, 0>>, data)

\* The values of hashMap in insertion order: the paths of each hash, in the order
\* the paths were met
RECURSIVE GroupByHash(_, _)
GroupByHash(paths, files) ==
    IF paths = <<>> THEN <<>>
    ELSE LET hash == simpleHash(files[Head(paths)].b)
             same(p) == simpleHash(files[p].b) = hash
             other(p) == ~same(p)
         IN  <<SelectSeq(paths, same)>> \o GroupByHash(SelectSeq(paths, other), files)

\* order: the keys of pack.files in the Map's iteration order
findDuplicateTextures(files, order) ==
    LET isPng(p) == EndsWith(p, PngExt)
        isDuplicate(paths) == Len(paths) > 1
        groups == SelectSeq(GroupByHash(SelectSeq(order, isPng), files), isDuplicate)
        duplicates == [i \in DOMAIN groups |->
                          [paths |-> groups[i], size |-> Len(files[groups[i][1]].b)]]
    IN  SortBy(duplicates, LAMBDA d : 0 - d.size)

\* Packs of binary assets for the analysis
DupPaths ==
    { <<"assets/", "minecraft", "/textures/", "item/", "a", ".png">>,
      <<"assets/", "minecraft", "/textures/", "item/", "b", ".png">>,
      <<"assets/", "minecraft", "/textures/", "font/", "c", ".png">>,
      <<"assets/", "minecraft", "/sounds/", "d", ".ogg">> }
DupPayloads == { Bytes(<<31>>), Bytes(<<1, 0>>), Bytes(<<137, 80, 1>>), Bytes(<<137, 80, 2, 3>>) }
DupStores == UNION {[S -> DupPayloads] : S \in SUBSET DupPaths}

\* The orders in which a Map can hold the keys
KeyOrders(keys) ==
    {order \in [1..Cardinality(keys) -> keys] :
        \A i, j \in DOMAIN order : order[i] = order[j] => i = j}

InitDuplicates ==
    /\ pack \in DupStores
    /\ last = NoAction /\ last2 = NoAction /\ steps = 0 /\ pending = <<>>
    /\ mixer = <<>> /\ mixed = NoMix /\ InitAllocIdle

\* AnalysisTool: the Duplicates report of the current pack
FindDuplicates ==
    /\ steps < MaxAnalyses
    /\ \E order \in KeyOrders(DOMAIN pack) :
        \E result \in {findDuplicateTextures(pack, order)} :
            Adopt("duplicates", [order |-> order, result |-> result],
                  [threw |-> FALSE, shared |-> FALSE, files |-> pack], TRUE, <<>>, <<>>)

NextDuplicates == FindDuplicates

SpecDuplicates == InitDuplicates /\ [][NextDuplicates]_vars

PngPaths(files) == {p \in DOMAIN files : EndsWith(p, PngExt)}

\* C21: findDuplicateTextures reports exactly the byte-equality classes of .png
\* paths with more than one member: two .png paths share a reported group if and
\* only if their payloads are byte-identical, a group's size is the byte length
\* of any member, and the groups come in descending order of size.
C21_GroupsAreByteEqualityClasses ==
    last.op = "duplicates" =>
        LET groups == last.args.result
        IN  /\ \A p, q \in PngPaths(pack) :
                  p # q =>
                      ((\E i \in DOMAIN groups :
                            p \in Range(groups[i].paths) /\ q \in Range(groups[i].paths))
                       <=> pack[p].b = pack[q].b)
            /\ \A i \in DOMAIN groups :
                  /\ Len(groups[i].paths) > 1
                  /\ \A p \in Range(groups[i].paths) : groups[i].size = Len(pack[p].b)
            /\ \A i, j \in DOMAIN groups : i < j => groups[i].size >= groups[j].size

----------------------------------------------------------------------------
(* analysis.ts: findUnusedFiles *)

AssetKinds == {"/textures/", "/models/", "/sounds/"}
AssetExtensions == {".png", ".json", ".ogg"}
\* The tokens of the model's strings that hold a '/' or a ':'
SlashOrColonTokens ==
    {":", "/", "assets/", "item/", "font/", "/font/", "/items/", "/sounds.json"} \cup AssetKinds

\* /^assets\/([^/]+)\/(textures|models|sounds)\/(.+)\.(png|json|ogg)$/
IsAssetPath(s) ==
    /\ Len(s) >= 5
    /\ s[1] = "assets/"
    /\ s[3] \in AssetKinds
    /\ Last(s) \in AssetExtensions

\* `${namespace}:${pathPart}`, or null (the empty string here)
pathToResourceId(path) ==
    IF IsAssetPath(path) THEN <<path[2], ":">> \o SubSeq(path, 4, Len(path) - 1) ELSE <<>>

\* What extractReferences adds to refs for one string leaf.  The namespaces of
\* the model are lower-case, as /^([a-z0-9_.-]+):(.+?)(?:\.(png|json|ogg))?$/ asks
ReferencesOf(s) ==
    IF IsAssetPath(s) THEN {s, <<s[2], ":">> \o SubSeq(s, 4, Len(s) - 1)}
    ELSE IF Len(s) >= 3 /\ s[2] = ":"
         THEN {s, IF Len(s) >= 4 /\ Last(s) \in AssetExtensions
                  THEN SubSeq(s, 1, Len(s) - 1) ELSE s}
    ELSE IF \E i \in DOMAIN s : s[i] \in SlashOrColonTokens THEN {s}
    ELSE {}

\* A type or property name as a token string
IdTokens(t) ==
    IF t = LeafType THEN <<"minecraft", ":", "model">>
    ELSE IF t = DispatchType THEN <<"minecraft", ":", "range_dispatch">>
    ELSE IF t = CmdProperty THEN <<"minecraft", ":", "custom_model_data">>
    ELSE IF t = "minecraft:select" THEN <<"minecraft", ":", "select">>
    ELSE <<t>>

\* The string leaves of an items-model node
RECURSIVE NodeLeaves(_)
NodeLeaves(node) ==
    {IdTokens(node.type)}
    \cup (IF "model" \in DOMAIN node THEN {node.model} ELSE {})
    \cup (IF "entries" \in DOMAIN node
          THEN {IdTokens(node.property)}
               \cup UNION {NodeLeaves(e.model) : e \in Range(node.entries)}
               \cup UNION {NodeLeaves(f) : f \in Range(node.fallback)}
          ELSE {})

\* The string leaves of a parsed document (Object.values, recursively)
StringLeaves(v) ==
    IF v.shape = "mcmeta" THEN {v.description}
    ELSE IF v.shape = "model"
         THEN {v.parent, v.layer0}
              \cup (IF v.hasOverrides THEN {o.model : o \in Range(v.overrides)} ELSE {})
    ELSE IF v.shape = "itemdef" THEN NodeLeaves(v.model)
    ELSE IF v.shape = "sounds"
         THEN UNION {{s.name : s \in Range(v.events[id].sounds)} : id \in DOMAIN v.events}
    ELSE IF v.shape = "font" THEN {provider.file : provider \in Range(v.providers)}
    ELSE {}

\* The result as the set of its members
findUnusedFiles(files) ==
    LET referrers == {path \in DOMAIN files :
                         /\ IsJsonFile(path)
                         /\ ~Unparseable(files[path]) /\ ~IsEmptyText(files[path])}
        referenced == UNION {UNION {ReferencesOf(s) : s \in StringLeaves(files[path].v)} :
                                path \in referrers}
    IN  {path \in DOMAIN files :
            /\ path # McmetaPath /\ path # <<"pack.png">>
            /\ ~IsJsonFile(path)
            /\ pathToResourceId(path) # <<>>
            /\ pathToResourceId(path) \notin referenced
            /\ path \notin referenced
            /\ pathToResourceId(path) \o PngExt \notin referenced
            /\ pathToResourceId(path) \o JsonExt \notin referenced}

\* A pack authored by hand whose model names its texture without a namespace
PlainArchive ==
    Store({ <<McmetaPath, RawJson(Mcmeta(34, <<"plain">>))>>,
            <<BaseModelPath("minecraft", Sword),
              RawJson(ModelDoc(GeneratedParent, <<"item/", "plain">>, FALSE, <<>>))>>,
            <<ItemTexturePath("minecraft", <<"plain">>), PngA>>,
            <<ItemTexturePath("minecraft", <<"spare">>), PngB>> })

InitUnused ==
    /\ pack \in {importZip(Archives[a]) : a \in ArchiveNames} \cup {importZip(PlainArchive)}
    /\ last = NoAction /\ last2 = NoAction /\ steps = 0 /\ pending = <<>>
    /\ mixer = <<>> /\ mixed = NoMix /\ InitAllocIdle

\* AnalysisTool: the Unused Files report of the current pack
FindUnused ==
    /\ CanAct
    /\ \E result \in {findUnusedFiles(pack)} :
        Adopt("unused", [result |-> result],
              [threw |-> FALSE, shared |-> FALSE, files |-> pack], TRUE, <<>>, <<>>)

NextUnused ==
    \/ ApplyCmd
    \/ AddSound
    \/ AddGlyph
    \/ FindUnused

SpecUnused == InitUnused /\ [][NextUnused]_vars

\* The parsed JSON documents of the store
ParsedDocuments(files) ==
    {files[path].v : path \in {p \in DOMAIN files :
                                  ~Unparseable(files[p]) /\ ~IsEmptyText(files[p])}}

\* The strings that name the asset at the path: its resource identifier, with
\* the namespace left out when it is the default one, with or without the file
\* extension, and the storage path
NamesOfAsset(path) ==
    LET n == Len(path)
        extension == <<path[n]>>
        rest == SubSeq(path, 4, n - 1)
        qualified == <<path[2], ":">> \o rest
    IN  {path, qualified, qualified \o extension}
        \cup (IF path[2] = "minecraft" THEN {rest, rest \o extension} ELSE {})

Assets(files) ==
    {path \in DOMAIN files :
        /\ Len(path) >= 5 /\ path[1] = "assets/"
        /\ path[3] \in {"/textures/", "/sounds/"}
        /\ Last(path) \in {".png", ".ogg"}}

IsReferencedAsset(files, path) ==
    \E v \in ParsedDocuments(files) : StringLeaves(v) \cap NamesOfAsset(path) # {}

\* C22: findUnusedFiles never reports a referenced asset: an asset named by a
\* string leaf of some parseable JSON document (resource identifier, default
\* namespace when omitted, with or without extension, or storage path) is absent
\* from the result; the editor's generated texture is not reported while its
\* generated model document exists.
C22_ReferencedAssetNeverReported ==
    last.op = "unused" =>
        \A path \in Assets(pack) :
            IsReferencedAsset(pack, path) => path \notin last.args.result

----------------------------------------------------------------------------
(* CmdTool.tsx with item ids that carry a namespace *)

EditorItemIds == {Sword, DiamondSword, <<"other", ":">> \o DiamondSword, <<"minecraft", ":">> \o Sword}

InitEditor ==
    /\ pack \in {importZip(Archives[a]) : a \in ArchiveNames} \cup {importZip(BadMetaArchive)}
    /\ last = NoAction /\ last2 = NoAction /\ steps = 0 /\ pending = <<>>
    /\ mixer = <<>> /\ mixed = NoMix /\ InitAllocIdle

\* CmdTool.apply with the item id as typed
ApplyItemId ==
    /\ CanAct
    /\ \E itemId \in EditorItemIds, cmd \in Tags, ns \in Namespaces :
        LET input == [itemId |-> itemId, customModelData |-> cmd, namespace |-> ns,
                      texturePng |-> PngA]
        IN  \E r \in {applyCustomModelData(pack, input)} :
                Adopt("applyId", input, r, FALSE, <<>>, <<>>)

NextEditor ==
    \/ ApplyItemId
    \/ Convert

SpecEditor == InitEditor /\ [][NextEditor]_vars

\* The editor's last call returned a package
AppliedId(a) == a.op = "applyId" /\ ~a.threw
\* pack.mcmeta is readable and declares a version of 46 or above
DeclaredModern(files) ==
    MetaHasPack(files) /\ readJson(files, McmetaPath).v.pack_format >= 46
\* The two parts of "ns:name"; the default namespace when there is no colon
IdNamespace(itemId) == IF Len(itemId) >= 3 /\ itemId[2] = ":" THEN itemId[1] ELSE "minecraft"
IdName(itemId) ==
    IF Len(itemId) >= 3 /\ itemId[2] = ":" THEN SubSeq(itemId, 3, Len(itemId)) ELSE itemId
\* The legacy model document at the path holds an override for the tag
HasOverride(files, path, cmd) ==
    CarriesOverrides(files, path) /\ \E o \in Range(files[path].v.overrides) : o.cmd = cmd
\* The modern item document at the path dispatches on the tag
HasEntry(files, path, cmd) ==
    /\ path \in DOMAIN files /\ IsModernItemDocument(path)
    /\ readJson(files, path).st = "ok"
    /\ files[path].v.shape = "itemdef"
    /\ IsCmdDispatch(files[path].v.model)
    /\ \E e \in Range(files[path].v.model.entries) : e.threshold = cmd

C24_IndirectionUnderItemNamespace ==
    AppliedId(last) =>
        LET ns == IdNamespace(last.args.itemId)
            name == IdName(last.args.itemId)
            cmd == last.args.customModelData
        IN  IF DeclaredModern(last.before)
            THEN HasEntry(pack, <<"assets/", ns, "/items/">> \o name \o <<".json">>, cmd)
            ELSE HasOverride(pack, <<"assets/", ns, "/models/", "item/">> \o name \o <<".json">>,
                             cmd)

----------------------------------------------------------------------------
(* ManagerTool.tsx: what a deletion leaves in place *)

\* The generated model and texture of the pair (item, tag):
\* assets/<ns>/models/item/<item>_cmd_<tag>.json and
\* assets/<ns>/textures/item/<item>_cmd_<tag>.png
GeneratedFiles(files, item, cmd) ==
    {path \in DOMAIN files :
        /\ Len(path) >= 6 /\ path[1] = "assets/" /\ path[4] = "item/"
        /\ \/ path[3] = "/models/" /\ Last(path) = ".json"
           \/ path[3] = "/textures/" /\ Last(path) = ".png"
        /\ SubSeq(path, 5, Len(path) - 1) = item \o <<"_cmd_">> \o Digits(cmd)}

\* C26: deleting the override (item i, tag t) through the manager removes only
\* that record and the generated model and asset of (i, t): the records and the
\* generated files of every other (item, tag) pair are still present, also for
\* tags whose decimal form starts with t and items whose name ends with i.
C26_DeleteKeepsOtherPairs ==
    Deleted(last) =>
        LET item == last.args.item
            cmd == last.args.cmd
        IN  /\ \A r \in findCmdEntries(last.before) :
                  (r.item # item \/ r.cmd # cmd) => r \in findCmdEntries(pack)
            /\ \A other \in Items, tag \in Tags :
                  (other # item \/ tag # cmd) =>
                      \A path \in GeneratedFiles(last.before, other, tag) :
                          path \in DOMAIN pack /\ pack[path] = last.before[path]

----------------------------------------------------------------------------
(* converter.ts: records already stored in the target generation *)

\* The tags of the overrides of the legacy model document at the path
OverrideTags(files, path) ==
    IF CarriesOverrides(files, path)
    THEN {o.cmd : o \in {x \in Range(files[path].v.overrides) : x.cmd # NoNum}}
    ELSE {}
\* The thresholds of the entries of the modern item document at the path
EntryThresholds(files, path) ==
    IF /\ path \in DOMAIN files /\ IsModernItemDocument(path)
       /\ readJson(files, path).st = "ok"
       /\ files[path].v.shape = "itemdef"
       /\ IsCmdDispatch(files[path].v.model)
    THEN {e.threshold : e \in Range(files[path].v.model.entries)}
    ELSE {}

\* C27: conversion does not lose override records already stored in the target
\* generation's document: after an upgrade the modern item document of an item
\* that also has legacy overrides still has an entry for every threshold it had;
\* after a downgrade the legacy model document the modern entries were merged
\* into still has an override for every tag it had.
C27_TargetRecordsKept ==
    /\ Upgraded(last) =>
          \A ns \in {"minecraft", "other", "mrwm"}, item \in Items :
              OverrideTags(last.before, BaseModelPath(ns, item)) # {} =>
                  EntryThresholds(last.before, ItemDefPath(ns, item))
                      \subseteq EntryThresholds(pack, ItemDefPath(ns, item))
    /\ Downgraded(last) =>
          \A ns \in {"minecraft", "other", "mrwm"}, item \in Items :
              EntryThresholds(last.before, ItemDefPath(ns, item)) # {} =>
                  OverrideTags(last.before, BaseModelPath(ns, item))
                      \subseteq OverrideTags(pack, BaseModelPath(ns, item))

----------------------------------------------------------------------------
(* App.tsx and the tools' async handlers: a handler reads `pack` from the
   render it was created in, awaits its file read, computes the next pack from
   that value and hands it to setPack *)

MaxPending == 2   \* handlers awaiting their file read at one time

\* The handlers that await a file read, each with what the user entered
AsyncInputs ==
    { [op |-> "apply",
       input |-> [itemId |-> Sword, customModelData |-> 1, namespace |-> "minecraft",
                  texturePng |-> PngA]],
      [op |-> "apply",
       input |-> [itemId |-> DiamondSword, customModelData |-> 2, namespace |-> "",
                  texturePng |-> PngA]],
      [op |-> "addSound",
       input |-> [soundId |-> BeepId, namespace |-> "", soundFile |-> OggA, replace |-> FALSE]],
      [op |-> "texture",
       input |-> [target |-> <<"item/", "sword">>, replacementPng |-> PngB]],
      [op |-> "uploadUnicode",
       input |-> [font |-> <<"default">>, uploads |-> <<FontUploads.icon>>]] }

\* The library call of the handler h on the pack it captured
RunHandler(h) ==
    IF h.op = "apply" THEN applyCustomModelData(h.seen, h.input)
    ELSE IF h.op = "addSound" THEN addSound(h.seen, h.input)
    ELSE IF h.op = "texture" THEN replaceVanillaTexture(h.seen, h.input)
    ELSE handleUnicodeImageUpload(h.seen, h.input.font, h.input.uploads)

\* The user triggers a handler: it captures the current pack and starts its read
StartHandler ==
    /\ Len(pending) < MaxPending
    /\ steps + Len(pending) < MaxSteps
    /\ \E h \in AsyncInputs :
          pending' = Append(pending, [op |-> h.op, input |-> h.input, seen |-> pack])
    /\ UNCHANGED <<pack, last, last2, steps, mixVars, allocVars>>

\* The read of a pending handler completes: onPackChange(next), or the error
\* path, which leaves the application's pack alone
CompleteHandler ==
    \E i \in DOMAIN pending :
        \E r \in {RunHandler(pending[i])} :
            /\ pack' = IF r.threw THEN pack ELSE r.files
            /\ last' = [op |-> pending[i].op,
                        args |-> [input |-> pending[i].input, result |-> r.files],
                        before |-> pending[i].seen, inputAfter |-> pending[i].seen,
                        threw |-> r.threw, same |-> FALSE, changes |-> <<>>,
                        warnings |-> <<>>]
            /\ last2' = last
            /\ steps' = steps + 1
            /\ pending' = SubSeq(pending, 1, i - 1) \o SubSeq(pending, i + 1, Len(pending))
            /\ UNCHANGED <<mixVars, allocVars>>

NextAsync ==
    \/ StartHandler
    \/ CompleteHandler

SpecAsync == Init /\ [][NextAsync]_vars

\* The call of the action a wrote the path
Wrote(a, path) ==
    /\ path \in DOMAIN a.args.result
    /\ path \in DOMAIN a.before => a.before[path] # a.args.result[path]

\* C28: when two tool actions were started against the same current package and
\* both have completed, in either order, the application's package contains the
\* effects of both: what the first to complete wrote (and the second did not
\* write itself) is in the package.
C28_NoEditOverwritten ==
    (/\ last.op # "none" /\ last2.op # "none"
     /\ ~last.threw /\ ~last2.threw
     /\ last.before = last2.before) =>
        \A path \in DOMAIN last2.args.result :
            (Wrote(last2, path) /\ ~Wrote(last, path)) =>
                path \in DOMAIN pack /\ pack[path] = last2.args.result[path]

----------------------------------------------------------------------------
(* analysis.ts: detectConflicts *)

\* pathToSources: for every path the set of the names of the packs that hold it;
\* the result as the set of its records
detectConflicts(packs) ==
    LET paths == UNION {DOMAIN packs[i].files : i \in DOMAIN packs}
        sources(path) == {packs[i].name : i \in {j \in DOMAIN packs : path \in DOMAIN packs[j].files}}
    IN  {[path |-> path, sources |-> sources(path)] :
            path \in {q \in paths : Cardinality(sources(q)) > 1}}

\* Imported packs: importZip names a pack after its archive file, without '.zip'
ConflictPacks ==
    {[name |-> name, files |-> importZip(Archives[a])] :
        name \in {<<"pack">>, <<"other">>}, a \in MixArchives}
ConflictInputs ==
    {<<a, b>> : a, b \in ConflictPacks} \cup {<<a, b, c>> : a, b, c \in ConflictPacks}

\* The conflict report for a list of imported packs
DetectConflicts ==
    /\ steps < MaxAnalyses
    /\ \E packs \in ConflictInputs :
        \E result \in {detectConflicts(packs)} :
            Adopt("conflicts", [packs |-> packs, result |-> result],
                  [threw |-> FALSE, shared |-> FALSE, files |-> pack], TRUE, <<>>, <<>>)

NextConflicts == DetectConflicts

InitConflicts == IdlePack /\ mixer = <<>> /\ mixed = NoMix /\ InitAllocIdle

SpecConflicts == InitConflicts /\ [][NextConflicts]_vars

\* C29: detectConflicts reports a path as a conflict if and only if the path is
\* present in the stores of at least two of the input packages, also when two of
\* the contributing packages have the same name.
C29_ConflictIffInTwoStores ==
    last.op = "conflicts" =>
        LET packs == last.args.packs
        IN  \A path \in UNION {DOMAIN packs[i].files : i \in DOMAIN packs} :
                (\E c \in last.args.result : c.path = path)
                    <=> Cardinality({i \in DOMAIN packs : path \in DOMAIN packs[i].files}) >= 2

----------------------------------------------------------------------------
(* vfs.ts: normalizePath on arbitrary strings *)

MaxPathLen == 4   \* characters of a path handed to normalizePath

\* files.get(normalizePath(path))
vfsGet(files, path) ==
    IF normalizePath(path) \in DOMAIN files
    THEN [found |-> TRUE, data |-> files[normalizePath(path)]]
    ELSE [found |-> FALSE]

\* Strings over a dot, the two slashes and a letter
PathInputs == UNION {[1..n -> {".", "/", "\\", "a"}] : n \in 0..MaxPathLen}

InitPaths ==
    /\ pack = EmptyVfs
    /\ last \in {[NoAction EXCEPT !.args = [path |-> p]] : p \in PathInputs}
    /\ last2 = NoAction /\ steps = 0 /\ pending = <<>>
    /\ mixer = <<>> /\ mixed = NoMix /\ InitAllocIdle

\* A caller stores a payload under the path in an empty store and reads it back
\* under the path and under its normal form
StoreAndGet ==
    /\ last.op = "none"
    /\ \E path \in {last.args.path} :
        \E once \in {normalizePath(path)}, files \in {vfsSet(EmptyVfs, path, PngA)} :
            Adopt("normalizePath",
                  [path |-> path, once |-> once, twice |-> normalizePath(once),
                   getRaw |-> vfsGet(files, path), getNormal |-> vfsGet(files, once)],
                  [threw |-> FALSE, shared |-> FALSE, files |-> files], FALSE, <<>>, <<>>)

NextPaths == StoreAndGet

SpecPaths == InitPaths /\ [][NextPaths]_vars

\* C30: normalizePath is idempotent and yields a normalized path: the result has
\* no backslash, no leading slash and no leading "." segment, and a value stored
\* with vfsSet under p is found by vfsGet under p and under normalizePath(p).
C30_NormalizePathIdempotent ==
    last.op = "normalizePath" =>
        LET once == last.args.once
        IN  /\ last.args.twice = once
            /\ "\\" \notin Range(once)
            /\ once # <<>> => once[1] # "/"
            /\ ~(once # <<>> /\ once[1] = "." /\ (Len(once) = 1 \/ once[2] = "/"))
            /\ last.args.getRaw.found /\ last.args.getRaw.data = PngA
            /\ last.args.getNormal.found /\ last.args.getNormal.data = PngA

====
